---- MODULE Spec2Model ----
(***************************************************************************)
(* Model of the museum digitisation scripts: the image index, the metadata *)
(* merge and the description pipeline (autoOpenAIDescription.py and its     *)
(* older variant automatic_description_Hier.py).                           *)
(*                                                                         *)
(* A Python string is a sequence of one-character strings, so that the     *)
(* regular expressions and str methods of the source are computed, not     *)
(* assumed.  Free texts that the code only passes on or tests for          *)
(* containment (API messages, descriptions) are sequences of chunks.       *)
(***************************************************************************)
EXTENDS Integers, Sequences, FiniteSets, TLC

(* ----------------------------- bounds ---------------------------------- *)
\* objects in the small image tree of the description pipeline
NumObjects == 2
\* objects in the large tree beyond BATCH_LIMIT (the tree holds BATCH_LIMIT + ExtraObjects)
ExtraObjects == 2
\* invocations of the script in one behaviour (a restart after a kill is one)
MaxRuns == 2

(* ------------------------- Python str helpers -------------------------- *)
\* None and float("nan"): one-chunk values no text of the model equals
None == <<"None">>
NaN == <<"NaN">>

Digits == {"0", "1", "2", "3", "4", "5", "6", "7", "8", "9"}
Whitespace == {" ", "\t"}

\* characters in code-point order, for str comparison (sorted) and lower()
AsciiOrder ==
  <<"\t", " ", "-", ".", "/",
    "0", "1", "2", "3", "4", "5", "6", "7", "8", "9",
    "A", "E", "G", "J", "N", "P", "T", "X", "_",
    "a", "e", "g", "j", "n", "p", "t", "x">>

Ord(c) == CHOOSE i \in 1..Len(AsciiOrder) : AsciiOrder[i] = c

UpperToLower ==
  [c \in {"A", "E", "G", "J", "N", "P", "T", "X"} |->
     CASE c = "A" -> "a" [] c = "E" -> "e" [] c = "G" -> "g" [] c = "J" -> "j"
       [] c = "N" -> "n" [] c = "P" -> "p" [] c = "T" -> "t" [] c = "X" -> "x"]

LowerChar(c) == IF c \in DOMAIN UpperToLower THEN UpperToLower[c] ELSE c

\* str.lower()
Lower(s) == [i \in 1..Len(s) |-> LowerChar(s[i])]

\* s[a:b] with 1-based inclusive positions
Slice(s, a, b) == IF a > b THEN <<>> ELSE SubSeq(s, a, b)

IsDigitAt(s, i) == i >= 1 /\ i <= Len(s) /\ s[i] \in Digits

\* the length of the longest run of digits that starts at position i (\d+, greedy)
DigitRun(s, i) ==
  LET ends == {j \in i..Len(s) : \A k \in i..j : s[k] \in Digits}
  IN Cardinality(ends)

\* \d{n} at position i
DigitsAt(s, i, n) == \A k \in i..(i + n - 1) : IsDigitAt(s, k)

\* str.strip()
Strip(s) ==
  LET keep == {i \in 1..Len(s) : s[i] \notin Whitespace}
  IN IF keep = {} THEN <<>>
     ELSE LET lo == CHOOSE i \in keep : \A j \in keep : i <= j
              hi == CHOOSE i \in keep : \A j \in keep : i >= j
          IN SubSeq(s, lo, hi)

\* str < str (code-point lexicographic order)
StrLess(a, b) ==
  \E i \in 1..(Len(b)) :
     /\ \A k \in 1..(i - 1) : k <= Len(a) /\ a[k] = b[k]
     /\ \/ i = Len(a) + 1
        \/ i <= Len(a) /\ Ord(a[i]) < Ord(b[i])

\* sep.join(parts)
RECURSIVE Join(_, _)
Join(parts, sep) ==
  IF Len(parts) = 0 THEN <<>>
  ELSE IF Len(parts) = 1 THEN parts[1]
  ELSE parts[1] \o sep \o Join(Tail(parts), sep)

\* sorted(set of str): ascending, as a sequence
RECURSIVE SortedStrs(_)
SortedStrs(S) ==
  IF S = {} THEN <<>>
  ELSE LET m == CHOOSE x \in S : \A y \in S \ {x} : StrLess(x, y)
       IN <<m>> \o SortedStrs(S \ {m})

(* ------------------- object identity and the image index --------------- *)
\* ALLOWED_EXTS
ALLOWED_EXTS ==
  { <<".", "j", "p", "g">>, <<".", "j", "p", "e", "g">>, <<".", "p", "n", "g">>,
    <<".", "t", "i", "f">>, <<".", "t", "i", "f", "f">>, <<".", "b", "m", "p">> }

\* OBJ_ID_PATTERN.match(filename): ^(\d+)-(\d{4})-(\d{4}), the three groups or None
ObjIdMatch(s) ==
  LET n == DigitRun(s, 1)
  IN IF /\ n >= 1
        /\ Len(s) >= n + 10
        /\ s[n + 1] = "-"
        /\ DigitsAt(s, n + 2, 4)
        /\ s[n + 6] = "-"
        /\ DigitsAt(s, n + 7, 4)
     THEN <<Slice(s, 1, n), Slice(s, n + 2, n + 5), Slice(s, n + 7, n + 10)>>
     ELSE None

\* extract_object_id(filename)
extract_object_id(filename) ==
  LET m == ObjIdMatch(filename)
  IN IF m = None THEN None ELSE Join(m, <<"-">>)

\* Path.suffix of a file name: from the last dot, unless the dot leads or ends it
PathSuffix(name) ==
  LET dots == {i \in 1..Len(name) : name[i] = "."}
  IN IF dots = {} THEN <<>>
     ELSE LET d == CHOOSE i \in dots : \A j \in dots : i >= j
          IN IF d = 1 \/ d = Len(name) THEN <<>> ELSE Slice(name, d, Len(name))

\* Path.stem
PathStem(name) == Slice(name, 1, Len(name) - Len(PathSuffix(name)))

\* int(str of digits)
RECURSIVE ToInt(_)
ToInt(ds) ==
  IF Len(ds) = 0 THEN 0
  ELSE 10 * ToInt(Slice(ds, 1, Len(ds) - 1)) + (Ord(ds[Len(ds)]) - Ord("0"))

\* SUFFIX_PATTERN.match(stem): ^\d+-\d{4}-\d{4}-(\d{3})-(\d{3}), the two groups or None
SuffixMatch(stem) ==
  LET n == DigitRun(stem, 1)
  IN IF /\ ObjIdMatch(stem) # None
        /\ Len(stem) >= n + 18
        /\ stem[n + 11] = "-"
        /\ DigitsAt(stem, n + 12, 3)
        /\ stem[n + 15] = "-"
        /\ DigitsAt(stem, n + 16, 3)
     THEN <<Slice(stem, n + 12, n + 14), Slice(stem, n + 16, n + 18)>>
     ELSE None

\* mutant: a file without sequence groups gets the lowest key
suffix_sort_key_fallback_first(path) ==
  LET stem == PathStem(path.name)
      m == SuffixMatch(stem)
  IN IF m # None THEN <<ToInt(m[1]), ToInt(m[2]), Lower(stem)>>
     ELSE <<0, 0, Lower(path.name)>>

\* suffix_sort_key(path): (int, int, str)
suffix_sort_key(path) ==
  LET stem == PathStem(path.name)
      m == SuffixMatch(stem)
  IN IF m # None THEN <<ToInt(m[1]), ToInt(m[2]), Lower(stem)>>
     ELSE <<999999, 999999, Lower(path.name)>>

\* tuple comparison of two sort keys
KeyLess(k1, k2) ==
  \/ k1[1] < k2[1]
  \/ k1[1] = k2[1] /\ k1[2] < k2[2]
  \/ k1[1] = k2[1] /\ k1[2] = k2[2] /\ StrLess(k1[3], k2[3])

\* is_image_file(path): every listed entry is a regular file
is_image_file(path) == Lower(PathSuffix(path.name)) \in ALLOWED_EXTS

\* mutant: no deduplication
unique_by_filename_keep_all(paths) == paths

\* unique_by_filename(paths): the first path of every lowercased file name
unique_by_filename(paths) ==
  LET keepIdx == {i \in 1..Len(paths) :
                    \A j \in 1..(i - 1) : Lower(paths[j].name) # Lower(paths[i].name)}
      F[i \in 0..Len(paths)] ==
        IF i = 0 THEN <<>>
        ELSE IF i \in keepIdx THEN Append(F[i - 1], paths[i]) ELSE F[i - 1]
  IN F[Len(paths)]

\* sorted(paths, key=suffix_sort_key): stable insertion by key
SortedBySuffix(paths) ==
  LET Insert(acc, p) ==
        LET after == {i \in 1..Len(acc) : KeyLess(suffix_sort_key(p), suffix_sort_key(acc[i]))}
            pos == IF after = {} THEN Len(acc) + 1
                   ELSE CHOOSE i \in after : \A j \in after : i <= j
        IN Slice(acc, 1, pos - 1) \o <<p>> \o Slice(acc, pos, Len(acc))
      F[i \in 0..Len(paths)] ==
        IF i = 0 THEN <<>> ELSE Insert(F[i - 1], paths[i])
  IN F[Len(paths)]

\* sorted(paths, key=lambda p: p.name.lower()) of the older script
SortedByLowerName(paths) ==
  LET Insert(acc, p) ==
        LET after == {i \in 1..Len(acc) : StrLess(Lower(p.name), Lower(acc[i].name))}
            pos == IF after = {} THEN Len(acc) + 1
                   ELSE CHOOSE i \in after : \A j \in after : i <= j
        IN Slice(acc, 1, pos - 1) \o <<p>> \o Slice(acc, pos, Len(acc))
      F[i \in 0..Len(paths)] ==
        IF i = 0 THEN <<>> ELSE Insert(F[i - 1], paths[i])
  IN F[Len(paths)]

\* the paths the scan of all roots appends, in root order then enumeration order;
\* a root that does not exist is skipped
ScannedPaths(dirs) ==
  LET F[r \in 0..Len(dirs)] ==
        IF r = 0 THEN <<>>
        ELSE IF ~dirs[r].exists THEN F[r - 1]
        ELSE F[r - 1] \o [i \in 1..Len(dirs[r].entries) |->
                            [root |-> r, name |-> dirs[r].entries[i].name,
                             size |-> dirs[r].entries[i].size]]
      Wanted(p) == is_image_file(p) /\ extract_object_id(p.name) # None
  IN SelectSeq(F[Len(dirs)], Wanted)

\* collect_images_by_object(dirs) of autoOpenAIDescription.py
collect_images_by_object(dirs) ==
  LET scanned == ScannedPaths(dirs)
      keys == {extract_object_id(scanned[i].name) : i \in 1..Len(scanned)}
  IN [k \in keys |->
        LET Mine(p) == extract_object_id(p.name) = k
        IN SortedBySuffix(unique_by_filename(SelectSeq(scanned, Mine)))]

\* collect_images_by_object(dirs) of automatic_description_Hier.py
collect_images_by_object_Hier(dirs) ==
  LET scanned == ScannedPaths(dirs)
      keys == {extract_object_id(scanned[i].name) : i \in 1..Len(scanned)}
  IN [k \in keys |->
        LET Mine(p) == extract_object_id(p.name) = k
        IN SortedByLowerName(SelectSeq(scanned, Mine))]

\* SUFFIX_RE.match(p.stem) of build_site.py: ^\d+-\d{4}-\d{4}-(\d{3})-(\d{3})$
SuffixReMatch(stem) ==
  IF SuffixMatch(stem) # None /\ Len(stem) = DigitRun(stem, 1) + 18
  THEN SuffixMatch(stem) ELSE None

\* suffix_sort_key(p) of build_site.py: (int, int, str)
suffix_sort_key_site(p) ==
  LET m == SuffixReMatch(PathStem(p.name))
  IN IF m # None THEN <<ToInt(m[1]), ToInt(m[2]), Lower(p.name)>>
     ELSE <<999999, 999999, Lower(p.name)>>

\* str.startswith
StartsWith(s, prefix) ==
  Len(s) >= Len(prefix) /\ SubSeq(s, 1, Len(prefix)) = prefix

\* every file under the roots, in root order then enumeration order
RglobAll(roots) ==
  LET F[r \in 0..Len(roots)] ==
        IF r = 0 THEN <<>>
        ELSE IF ~roots[r].exists THEN F[r - 1]
        ELSE F[r - 1] \o [i \in 1..Len(roots[r].entries) |->
                            [root |-> r, name |-> roots[r].entries[i].name,
                             size |-> roots[r].entries[i].size]]
  IN F[Len(roots)]

\* mutant: the last occurrence of a (name, size) pair is kept
unique_by_name_size_last(candidates) ==
  LET keepIdx == {i \in 1..Len(candidates) :
                    \A j \in (i + 1)..Len(candidates) :
                       <<Lower(candidates[j].name), candidates[j].size>>
                         # <<Lower(candidates[i].name), candidates[i].size>>}
      F[i \in 0..Len(candidates)] ==
        IF i = 0 THEN <<>>
        ELSE IF i \in keepIdx THEN Append(F[i - 1], candidates[i]) ELSE F[i - 1]
  IN F[Len(candidates)]

\* the de-duplication of collect_images_for_object: the first occurrence of every
\* (lowercased name, size) pair
unique_by_name_size(candidates) ==
  LET keepIdx == {i \in 1..Len(candidates) :
                    \A j \in 1..(i - 1) :
                       <<Lower(candidates[j].name), candidates[j].size>>
                         # <<Lower(candidates[i].name), candidates[i].size>>}
      F[i \in 0..Len(candidates)] ==
        IF i = 0 THEN <<>>
        ELSE IF i \in keepIdx THEN Append(F[i - 1], candidates[i]) ELSE F[i - 1]
  IN F[Len(candidates)]

\* mutant: the list is left in scan order
SortedBySuffixSiteScanOrder(paths) == paths

\* sorted(unique, key=suffix_sort_key) of build_site.py
SortedBySuffixSite(paths) ==
  LET Insert(acc, p) ==
        LET after == {i \in 1..Len(acc) :
                        KeyLess(suffix_sort_key_site(p), suffix_sort_key_site(acc[i]))}
            pos == IF after = {} THEN Len(acc) + 1
                   ELSE CHOOSE i \in after : \A j \in after : i <= j
        IN Slice(acc, 1, pos - 1) \o <<p>> \o Slice(acc, pos, Len(acc))
      F[i \in 0..Len(paths)] ==
        IF i = 0 THEN <<>> ELSE Insert(F[i - 1], paths[i])
  IN F[Len(paths)]

\* collect_images_for_object(obj_id) of build_site.py over IMAGES_ROOTS = roots
collect_images_for_object(obj_id, roots) ==
  LET prefix_lower == Lower(obj_id \o <<"-">>)
      Wanted(p) == /\ Lower(PathSuffix(p.name)) \in ALLOWED_EXTS
                   /\ StartsWith(Lower(p.name), prefix_lower)
  IN SortedBySuffixSite(unique_by_name_size(SelectSeq(RglobAll(roots), Wanted)))

(* ----------------------------- metadata -------------------------------- *)
NoData == <<"N", "o", " ", "D", "a", "t", "a">>

\* OBJ_FROM_T1_PATTERN.search(s): ^\s*(\d+)[/-](\d{4})[/-](\d{4}); the anchor makes
\* search succeed at the start of s only
ObjFromT1Search(s) ==
  LET ws == Cardinality({j \in 1..Len(s) : \A k \in 1..j : s[k] \in Whitespace})
      n == DigitRun(s, ws + 1)
      b == ws + n
  IN IF /\ n >= 1
        /\ Len(s) >= b + 10
        /\ s[b + 1] \in {"/", "-"}
        /\ DigitsAt(s, b + 2, 4)
        /\ s[b + 6] \in {"/", "-"}
        /\ DigitsAt(s, b + 7, 4)
     THEN <<Slice(s, ws + 1, b), Slice(s, b + 2, b + 5), Slice(s, b + 7, b + 10)>>
     ELSE None

\* mutant: the whole match is returned instead of the rebuilt identifier
normalize_obj_id_whole_match(value) ==
  IF value = None THEN None
  ELSE LET m == ObjFromT1Search(Strip(value))
       IN IF m = None THEN None
          ELSE Slice(Strip(value), 1, Len(m[1]) + 10)

\* normalize_obj_id_from_excel(value)
normalize_obj_id_from_excel(value) ==
  IF value = None THEN None
  ELSE LET m == ObjFromT1Search(Strip(value))
       IN IF m = None THEN None ELSE Join(m, <<"-">>)

\* safe_str(x)
safe_str(x) ==
  IF x = None \/ x = NaN THEN NoData
  ELSE LET s == Strip(x) IN IF s = <<>> THEN NoData ELSE s

\* EXCEL_TO_FIELDS: Excel header -> target field
EXCEL_TO_FIELDS ==
  [InventoryNo |-> "t1", Contributors |-> "t2", Materials |-> "t3", Dimensions |-> "t5",
   Location |-> "t8", LocationDescription |-> "t9", DetailedObjectName |-> "t12",
   YearOfManufacture |-> "t14"]

FIELDS_ORDER ==
  <<"InventoryNo", "Contributors", "Materials", "Dimensions", "Location",
    "LocationDescription", "DetailedObjectName", "YearOfManufacture">>

FieldNames == {FIELDS_ORDER[i] : i \in 1..Len(FIELDS_ORDER)}

\* read_metadata_excel(path): a missing file gives {}; a row whose t1 cell has no
\* identifier is skipped; a later row of the same identifier replaces the earlier
read_metadata_excel(table) ==
  IF ~table.exists THEN <<>>
  ELSE LET rws == table.rows
           ids == {normalize_obj_id_from_excel(rws[i].t1) : i \in 1..Len(rws)} \ {None}
           Entry(row, obj_norm) ==
             LET raw == [f \in FieldNames |-> safe_str(row[EXCEL_TO_FIELDS[f]])]
             IN IF raw["InventoryNo"] = NoData
                THEN [raw EXCEPT !["InventoryNo"] = obj_norm] ELSE raw
       IN [k \in ids |->
             LET rowsOf == {i \in 1..Len(rws) : normalize_obj_id_from_excel(rws[i].t1) = k}
                 last == CHOOSE i \in rowsOf : \A j \in rowsOf : i >= j
             IN Entry(rws[last], k)]

\* mutant: the record holds only the fields some source provides
build_metadata_sparse(obj_id, maps) ==
  LET provided == {k \in FieldNames :
                     \E i \in 1..Len(maps) :
                        obj_id \in DOMAIN maps[i] /\ k \in DOMAIN maps[i][obj_id]}
      First(k) == LET i == CHOOSE i \in 1..Len(maps) :
                             obj_id \in DOMAIN maps[i] /\ k \in DOMAIN maps[i][obj_id]
                  IN safe_str(maps[i][obj_id][k])
  IN [k \in provided \cup {"InventoryNo"} |->
        IF k \in provided /\ First(k) # NoData THEN First(k)
        ELSE IF k = "InventoryNo" THEN obj_id ELSE NoData]

\* mutant: a later source overwrites what an earlier one filled
build_metadata_last_wins(obj_id, maps) ==
  LET Merge(base, found) ==
        [k \in FieldNames |->
           IF k \in DOMAIN found /\ safe_str(found[k]) # NoData
           THEN safe_str(found[k]) ELSE base[k]]
      F[i \in 0..Len(maps)] ==
        IF i = 0 THEN [k \in FieldNames |-> NoData]
        ELSE IF obj_id \notin DOMAIN maps[i] THEN F[i - 1]
        ELSE Merge(F[i - 1], maps[i][obj_id])
      merged == F[Len(maps)]
  IN IF merged["InventoryNo"] = NoData
     THEN [merged EXCEPT !["InventoryNo"] = obj_id] ELSE merged

\* mutant: a source adds its value to what the field already holds
build_metadata_appending(obj_id, maps) ==
  LET Merge(base, found) ==
        [k \in FieldNames |->
           IF k \in DOMAIN found /\ safe_str(found[k]) # NoData
           THEN IF base[k] = NoData THEN safe_str(found[k])
                ELSE base[k] \o safe_str(found[k])
           ELSE base[k]]
      F[i \in 0..Len(maps)] ==
        IF i = 0 THEN [k \in FieldNames |-> NoData]
        ELSE IF obj_id \notin DOMAIN maps[i] THEN F[i - 1]
        ELSE Merge(F[i - 1], maps[i][obj_id])
      merged == F[Len(maps)]
  IN IF merged["InventoryNo"] = NoData
     THEN [merged EXCEPT !["InventoryNo"] = obj_id] ELSE merged

\* mutant: the inventory number is left at the sentinel
build_metadata_no_fallback(obj_id, maps) ==
  LET Merge(base, found) ==
        [k \in FieldNames |->
           IF base[k] = NoData /\ k \in DOMAIN found /\ safe_str(found[k]) # NoData
           THEN safe_str(found[k]) ELSE base[k]]
      F[i \in 0..Len(maps)] ==
        IF i = 0 THEN [k \in FieldNames |-> NoData]
        ELSE IF obj_id \notin DOMAIN maps[i] THEN F[i - 1]
        ELSE Merge(F[i - 1], maps[i][obj_id])
  IN F[Len(maps)]

\* build_metadata_for_object(obj_id, maps)
build_metadata_for_object(obj_id, maps) ==
  LET Filled(base) == \A k \in FieldNames : base[k] # NoData
      Merge(base, found) ==
        [k \in FieldNames |->
           IF base[k] = NoData /\ k \in DOMAIN found /\ safe_str(found[k]) # NoData
           THEN safe_str(found[k]) ELSE base[k]]
      \* F[i]: <<base, stopped>> after the first i mappings
      F[i \in 0..Len(maps)] ==
        IF i = 0 THEN <<[k \in FieldNames |-> NoData], FALSE>>
        ELSE IF F[i - 1][2] \/ obj_id \notin DOMAIN maps[i] THEN F[i - 1]
        ELSE LET b == Merge(F[i - 1][1], maps[i][obj_id]) IN <<b, Filled(b)>>
      merged == F[Len(maps)][1]
  IN IF merged["InventoryNo"] = NoData
     THEN [merged EXCEPT !["InventoryNo"] = obj_id] ELSE merged

\* metadata_csv_line(meta)
metadata_csv_line(meta) ==
  Join([i \in 1..Len(FIELDS_ORDER) |-> meta[FIELDS_ORDER[i]]], <<",", " ">>)

(* -------------------- the description collaborator --------------------- *)
MAX_RETRIES == 6
BATCH_LIMIT == 10
\* times are in ten-thousandths of a second, so that 2.0 * 1.8^k is exact below the cap
REQUEST_COOLDOWN_SEC == 25000
InitialWait == 20000
WaitCap == 300000
HintExtra == 5000
JitterMax == 5000

\* what client.chat.completions.create does: an answer, or an exception whose text
\* (str(e)) is cut into chunks at the places the code looks for
OkResponse(content) == [kind |-> "ok", status |-> 200, content |-> content, msg |-> <<>>]
ErrResponse(status, msg) == [kind |-> "error", status |-> status, content |-> None, msg |-> msg]

RateLimitPlain == ErrResponse(429, <<"Error code: ", "429", " - Rate limit reached">>)
RateLimitHint20 ==
  ErrResponse(429, <<"Error code: ", "429", " - Please ", "try again in ", "20", "s", ".">>)
RateLimitHint60 ==
  ErrResponse(429, <<"Error code: ", "429", " - Please ", "Try Again In ", "60", "s", ".">>)
RateLimitMinutes ==
  ErrResponse(429, <<"Error code: ", "429", " - Please ", "try again in ", "6", "m0s", ".">>)
ServerUnavailable == ErrResponse(503, <<"Error code: ", "503", " - Service unavailable">>)
BadRequest == ErrResponse(400, <<"Error code: ", "400", " - Invalid image">>)
\* a 400 whose text happens to hold the digits 500 (a token count 150043)
BadRequestTokens ==
  ErrResponse(400, <<"Error code: ", "400", " - context length exceeded: 1", "500", "43 tokens">>)
ConnectionError == ErrResponse(0, <<"Connection error.">>)
AnswerText == OkResponse(<<" ", "Entry", "\t">>)
AnswerNone == OkResponse(None)

Responses ==
  { AnswerText, AnswerNone, RateLimitPlain, RateLimitHint20, RateLimitHint60,
    RateLimitMinutes, ServerUnavailable, BadRequest, BadRequestTokens, ConnectionError }

\* random.uniform(0, 0.5): the two ends
Jitters == {0, JitterMax}

\* `sub in msg`, for a text cut so that an occurrence of sub is a chunk of its own
Contains(msg, sub) == \E i \in 1..Len(msg) : msg[i] = sub

\* msg.lower(), on the chunks whose case matters to the code
LowerChunk(c) ==
  CASE c = "Try Again In " -> "try again in "
    [] c = "Rate_Limit" -> "rate_limit"
    [] OTHER -> c

LowerMsg(msg) == [i \in 1..Len(msg) |-> LowerChunk(msg[i])]

\* float(text) of the numbers the hints carry, in ten-thousandths of a second
FloatOf(text) ==
  CASE text = "0" -> 0
    [] text = "6" -> 60000
    [] text = "20" -> 200000
    [] text = "60" -> 600000

\* WAIT_HINT_PATTERN.search(msg): "try again in ([0-9]+(\.[0-9]+)?)s", IGNORECASE;
\* the number matched, or -1 for no match
WaitHint(msg) ==
  LET low == LowerMsg(msg)
      hits == {i \in 1..(Len(low) - 2) :
                 /\ low[i] = "try again in "
                 /\ low[i + 1] \in {"0", "6", "20", "60"}
                 /\ low[i + 2] = "s"}
  IN IF hits = {} THEN -1
     ELSE FloatOf(low[(CHOOSE i \in hits : \A j \in hits : i <= j) + 1])

\* "429" in msg or "rate_limit" in msg.lower()
IsRateLimitMsg(msg) == Contains(msg, "429") \/ Contains(LowerMsg(msg), "rate_limit")

\* any(code in msg for code in ["500", "502", "503", "504"])
IsServerErrorMsg(msg) == \E code \in {"500", "502", "503", "504"} : Contains(msg, code)

\* sleep_for of the rate-limit branch: hinted + 0.5 if hinted else wait, plus jitter
\* (a hint of 0.0 is falsy)
RateLimitSleep(msg, w, jitter) ==
  LET hinted == WaitHint(msg)
  IN (IF hinted > 0 THEN hinted + HintExtra ELSE w) + jitter

\* sleep_for of the server-error branch
ServerSleep(w, jitter) == w + jitter

\* mutant: the cap is forgotten
NextWaitUncapped(w) == (w * 18) \div 10

\* wait = min(wait * 1.8, 30.0)
NextWait(w) == IF (w * 18) \div 10 < WaitCap THEN (w * 18) \div 10 ELSE WaitCap

MaxRetriesMsg == <<"Maximum retry attempts reached (rate limit / server error).">>
MaxRetriesMsgHier == <<"Maximale Anzahl Retries erreicht (Rate Limit / Serverfehler).">>

\* f"[Error during description: {e}]" and its German form in the older script
ErrorPlaceholder(v, msg) ==
  (IF v = "auto" THEN <<"[Error during description: ">> ELSE <<"[Fehler bei der Beschreibung: ">>)
    \o msg \o <<"]">>

\* (resp.choices[0].message.content or "").strip()
AnswerOf(r) == IF r.content = None THEN <<>> ELSE Strip(r.content)

(* --------------------------- the result store -------------------------- *)
\* DataFrame.to_excel writes NaN as an empty cell (na_rep = "")
WriteCell(v) == IF v = NaN \/ v = None THEN <<>> ELSE v

\* pd.read_excel gives NaN for an empty cell
ReadCell(c) == IF c = <<>> THEN NaN ELSE c

Columns(v) ==
  IF v = "auto" THEN {"object_id", "description", "metadata"} ELSE {"object_id", "description"}

\* pd.DataFrame(rows, columns=[...]).to_excel(DESCRIPTIONS_XLSX, index=False)
to_excel(v, rws) ==
  [exists |-> TRUE,
   rows |-> [i \in 1..Len(rws) |-> [c \in Columns(v) |-> WriteCell(rws[i][c])]]]

\* mutant: the persisted rows are not loaded again
LoadRowsForgotten(st) == <<>>

\* rows = pd.read_excel(DESCRIPTIONS_XLSX).to_dict("records")
LoadRows(st) ==
  IF ~st.exists THEN <<>>
  ELSE [i \in 1..Len(st.rows) |-> [c \in DOMAIN st.rows[i] |-> ReadCell(st.rows[i][c])]]

\* mutant: the done set is not rebuilt
LoadDoneForgotten(st) == {}

\* done = {str(x).strip() for x in df_exist.get("object_id", []) if pd.notna(x)}
LoadDone(st) ==
  IF ~st.exists THEN {}
  ELSE {Strip(ReadCell(st.rows[i]["object_id"])) :
          i \in {j \in 1..Len(st.rows) : ReadCell(st.rows[j]["object_id"]) # NaN}}

(* ------------------- the copy stage's identifier parsers --------------- *)
\* the length of the run of whitespace that starts at position i (\s*, greedy)
WsRun(s, i) ==
  Cardinality({j \in i..Len(s) : \A k \in i..j : s[k] \in Whitespace})

\* OBJ_RE of copy_RelevantImages.py tried at position p:
\* (\d+)\s*/\s*(\d{4})\s*/\s*(\d{3,4})\s+(\d+); the groups g1, year, g3 or None.
\* Each digit group is followed by a character that is no digit, so a group is the
\* whole run of digits it starts in
ObjReMatchAt(s, p) ==
  LET n1 == DigitRun(s, p)
      a == p + n1 + WsRun(s, p + n1)
      b == a + 1 + WsRun(s, a + 1)
      c == b + 4 + WsRun(s, b + 4)
      d == c + 1 + WsRun(s, c + 1)
      n3 == DigitRun(s, d)
      e == d + n3 + WsRun(s, d + n3)
  IN IF /\ n1 >= 1
        /\ a <= Len(s) /\ s[a] = "/"
        /\ DigitsAt(s, b, 4) /\ DigitRun(s, b) = 4
        /\ c <= Len(s) /\ s[c] = "/"
        /\ n3 \in {3, 4}
        /\ WsRun(s, d + n3) >= 1
        /\ IsDigitAt(s, e)
     THEN <<Slice(s, p, p + n1 - 1), Slice(s, b, b + 3), Slice(s, d, d + n3 - 1)>>
     ELSE None

\* mutant: the last occurrence instead of the first
ObjReSearchLast(s) ==
  LET hits == {p \in 1..Len(s) : ObjReMatchAt(s, p) # None /\ ~IsDigitAt(s, p - 1)}
  IN IF hits = {} THEN None
     ELSE ObjReMatchAt(s, CHOOSE p \in hits : \A q \in hits : q <= p)

\* OBJ_RE.search(raw): the match at the leftmost position that has one
ObjReSearch(s) ==
  LET hits == {p \in 1..Len(s) : ObjReMatchAt(s, p) # None}
  IN IF hits = {} THEN None
     ELSE ObjReMatchAt(s, CHOOSE p \in hits : \A q \in hits : p <= q)

\* parse_object_number(raw) of copy_RelevantImages.py: (base_prefix, year) or None;
\* a cell that is no str (None, NaN) has no object number
parse_object_number(raw) ==
  IF raw = None \/ raw = NaN THEN None
  ELSE LET m == ObjReSearch(raw)
       IN IF m = None THEN None
          ELSE <<m[1] \o <<"-">> \o m[2] \o <<"-">> \o m[3] \o <<"-">>, m[2]>>

\* OBJECT_REGEX.match(s) of copy_images_from_excel.py:
\* ^\s*(\d+)[\/-](\d{4})[\/-](\d{4})\s+(\d+)\s*$; prefix, year, code, variant or None
ObjectRegexMatch(s) ==
  LET ws == WsRun(s, 1)
      n == DigitRun(s, ws + 1)
      b == ws + n
      v == b + 11 + WsRun(s, b + 11)
      nv == DigitRun(s, v)
  IN IF /\ n >= 1
        /\ Len(s) >= b + 10
        /\ s[b + 1] \in {"/", "-"}
        /\ DigitsAt(s, b + 2, 4)
        /\ s[b + 6] \in {"/", "-"}
        /\ DigitsAt(s, b + 7, 4)
        /\ WsRun(s, b + 11) >= 1
        /\ nv >= 1
        /\ v + nv + WsRun(s, v + nv) = Len(s) + 1
     THEN <<Slice(s, ws + 1, b), Slice(s, b + 2, b + 5), Slice(s, b + 7, b + 10),
            Slice(s, v, v + nv - 1)>>
     ELSE None

\* parse_object_number(value) of copy_images_from_excel.py:
\* (original, prefix, year, code, variant) or None
parse_object_number_excel(value) ==
  IF value = None THEN None
  ELSE LET s == Strip(value)
           m == ObjectRegexMatch(s)
       IN IF s = <<>> \/ m = None THEN None
          ELSE <<s, m[1], m[2], m[3], m[4]>>

\* build_search_prefix(prefix, year, code, variant)
build_search_prefix(prefix, year, code, variant) ==
  prefix \o <<"-">> \o year \o <<"-">> \o code \o <<" ">> \o variant

(* ------------------------------ the state ------------------------------ *)
VARIABLES
  variant,            \* which script is deployed: "auto" (autoOpenAIDescription) or "hier"
  fs,                 \* INPUT_DIRS: per root, whether it exists and its enumeration
  xls,                \* the two metadata workbooks (SCHREIB_EXCEL, AEG_EXCEL)
  answers,            \* the collaborator's answers per object and attempt; <<>> = any
  store,              \* DESCRIPTIONS_XLSX as persisted
  pc,                 \* where the process is; "idle" = no process
  runs,               \* invocations so far
  groups, md_maps, all_objs, rows, done, idx, processed_this_run,   \* locals of main
  meta,               \* the merged record of the object in flight
  attempt, wait, resp, sleep_for,     \* locals of call_openai_with_retry
  apiCalls,           \* requests sent for the object in flight
  description,        \* the result of describe_object or the error placeholder
  apiLog,             \* the last two API events of this process (calls and pauses)
  describedThisRun,   \* describe_object invocations of this process
  interruptedAt,      \* rows persisted when a process was last killed, -1 = never
  cell,               \* a cell of the object-number column, as the parsers get it
  normalized,         \* normalize_obj_id_from_excel(cell)
  parsed,             \* parse_object_number(cell) of copy_RelevantImages.py
  parsed_excel,       \* parse_object_number(cell) of copy_images_from_excel.py
  applied,            \* the functions applied to the inputs so far
  index_auto,         \* collect_images_by_object(fs) of autoOpenAIDescription.py
  index_hier,         \* collect_images_by_object(fs) of automatic_description_Hier.py
  site_images,        \* collect_images_for_object of build_site.py with IMAGES_ROOTS = fs
  srcs,               \* maps: the source mappings in priority order
  ident,              \* obj_id: the identifier whose record is built
  record,             \* build_metadata_for_object(ident, srcs)
  doubled,            \* build_metadata_for_object(ident, srcs + srcs)
  remerged,           \* the record built from the record itself as both sources
  copier,             \* which copy script runs
  worklist,           \* per parsed object of the list, the files matched for it
  unreadable,         \* the files on which shutil.copy2 raises
  cpc,                \* where the copy script is
  at,                 \* <<object, file>>: the position in worklist
  attempted,          \* the files shutil.copy2 was called on
  recorded,           \* what the script has recorded per file so far
  written,            \* whether the logs / the report were written
  shots,              \* image_paths: the images of the object that is described
  blocked,            \* the images load_and_optionally_resize cannot read
  payload,            \* the images build_message_content put into the request
  site_dir,           \* SITE_DIR: the index cards and the object pages on disk
  images_root,        \* IMAGES_ROOT of copy_RelevantImages.py: year folder -> files
  rpc,                \* where main of copy_RelevantImages.py is
  list_no,            \* which of the two lists process_list works on
  cell_at,            \* the position in the list's series
  seen_outputs, seen_src_paths, seen_prefixes, copied_rows, misses_rows,
                      \* locals of process_list
  logs                \* the copied / misses logs written per list

vars ==
  <<variant, fs, xls, answers, store, pc, runs, groups, md_maps, all_objs, rows, done,
    idx, processed_this_run, meta, attempt, wait, resp, sleep_for, apiCalls, description, apiLog,
    describedThisRun, interruptedAt, cell, normalized, parsed, parsed_excel, applied,
    index_auto, index_hier, site_images, srcs, ident, record, doubled, remerged,
    copier, worklist, unreadable, cpc, at, attempted, recorded, written,
    shots, blocked, payload, site_dir, images_root, rpc, list_no, cell_at,
    seen_outputs, seen_src_paths, seen_prefixes, copied_rows, misses_rows, logs>>

\* the inputs and results of the functions that are run on their own
parser_vars == <<cell, normalized, parsed, parsed_excel>>
index_vars == <<index_auto, index_hier, site_images>>
merge_vars == <<srcs, ident, record, doubled, remerged>>
copy_vars == <<copier, worklist, unreadable, cpc, at, attempted, recorded, written>>
payload_vars == <<shots, blocked, payload>>
stage_vars ==
  <<images_root, rpc, list_no, cell_at, seen_outputs, seen_src_paths, seen_prefixes,
    copied_rows, misses_rows, logs>>
rest_units == <<payload_vars, site_dir, stage_vars>>
units == <<parser_vars, index_vars, merge_vars, copy_vars, rest_units, applied>>

\* what a run of main never changes
env == <<variant, fs, xls, answers, units>>
locals == <<groups, md_maps, all_objs, rows, done, idx, processed_this_run>>
retry == <<attempt, wait, resp, sleep_for, apiCalls>>
\* everything a process reads or writes
process_vars ==
  <<variant, xls, answers, store, pc, runs, locals, meta, retry, description, apiLog,
    describedThisRun, interruptedAt>>

NoResponse == OkResponse(None)
NoMeta == [k \in FieldNames |-> NoData]

LocalsReset ==
  /\ groups' = <<>>
  /\ md_maps' = <<>>
  /\ all_objs' = <<>>
  /\ rows' = <<>>
  /\ done' = {}
  /\ idx' = 0
  /\ processed_this_run' = 0
  /\ meta' = NoMeta
  /\ attempt' = 0
  /\ wait' = 0
  /\ resp' = NoResponse
  /\ sleep_for' = 0
  /\ apiCalls' = 0
  /\ description' = <<>>
  /\ apiLog' = <<>>
  /\ describedThisRun' = 0

\* the log keeps the last two events
Logged(log, e) == IF Len(log) < 2 THEN Append(log, e) ELSE <<log[2], e>>

(* ------------------------------ the worlds ----------------------------- *)
Digit(n) == AsciiOrder[Ord("0") + n]

\* the identifier of the i-th object of a tree: 1-1997-00dd
ObjectName(i) ==
  <<"1", "-", "1", "9", "9", "7", "-", "0", "0", Digit(i \div 10), Digit(i % 10)>>

ImageName(i, seq, ext) ==
  ObjectName(i) \o <<"-", "0", "0", "0", "-", "0", "0", Digit(seq)>> \o ext

Jpg == <<".", "j", "p", "g">>
JpgUpper == <<".", "J", "P", "G">>
Png == <<".", "p", "n", "g">>

File(name, size) == [name |-> name, size |-> size]

\* a tree of n objects: every object has one image in the first root, the first
\* object has the same file again and a second image in the second root
Tree(n) ==
  << [exists |-> TRUE, entries |-> [i \in 1..n |-> File(ImageName(n + 1 - i, 0, Jpg), 1)]],
     [exists |-> TRUE,
      entries |-> IF n = 0 THEN <<>>
                  ELSE <<File(ImageName(1, 1, Png), 2), File(ImageName(1, 0, JpgUpper), 1)>>] >>

EmptyRow ==
  [t1 |-> <<>>, t2 |-> <<>>, t3 |-> <<>>, t5 |-> <<>>, t8 |-> <<>>, t9 |-> <<>>,
   t12 |-> <<>>, t14 |-> <<>>]

\* the first workbook catalogues object 1 as 1/1997/0001 0; the second is missing
PipelineTables ==
  << [exists |-> TRUE,
      rows |-> << [EmptyRow EXCEPT !.t1 = <<"1", "/", "1", "9", "9", "7", "/", "0", "0", "0", "1", " ", "0">>,
                                   !.t2 = <<"A", "E", "G">>] >>],
     [exists |-> FALSE, rows |-> <<>>] >>

\* the end-to-end scenario: both roots hold 1-1997-0457-000-000.jpg, the first
\* workbook has one row whose object number is "1/1997/0457 0"
ScenarioFile ==
  <<"1", "-", "1", "9", "9", "7", "-", "0", "4", "5", "7",
    "-", "0", "0", "0", "-", "0", "0", "0", ".", "j", "p", "g">>

ScenarioCell == <<"1", "/", "1", "9", "9", "7", "/", "0", "4", "5", "7", " ", "0">>

ScenarioId == <<"1", "-", "1", "9", "9", "7", "-", "0", "4", "5", "7">>

ScenarioTree ==
  << [exists |-> TRUE, entries |-> <<File(ScenarioFile, 1)>>],
     [exists |-> TRUE, entries |-> <<File(ScenarioFile, 1)>>] >>

ScenarioTables ==
  << [exists |-> TRUE, rows |-> << [EmptyRow EXCEPT !.t1 = ScenarioCell] >>],
     [exists |-> FALSE, rows |-> <<>>] >>

\* answers per attempt; the last one repeats
Plans ==
  { <<AnswerText>>, <<AnswerNone>>, <<RateLimitHint60, ServerUnavailable, AnswerText>>,
    <<RateLimitPlain>>, <<BadRequest>>, <<BadRequestTokens>>,
    <<ServerUnavailable, ConnectionError>> }

PlanResponse(plan, a) == IF a <= Len(plan) THEN plan[a] ELSE plan[Len(plan)]

TreeIds(n) == {ObjectName(i) : i \in 1..n}

Variants == {"auto", "hier"}

\* no parser has been run on its own
NoParsers ==
  /\ cell = None
  /\ normalized = None
  /\ parsed = None
  /\ parsed_excel = None

\* no index has been built on its own
NoIndex ==
  /\ index_auto = None
  /\ index_hier = None
  /\ site_images = None

\* no record has been merged on its own
NoMerge ==
  /\ srcs = <<>>
  /\ ident = None
  /\ record = None
  /\ doubled = None
  /\ remerged = None

\* no copy script runs
NoCopy ==
  /\ copier = None
  /\ worklist = <<>>
  /\ unreadable = {}
  /\ cpc = "idle"
  /\ at = <<0, 0>>
  /\ attempted = {}
  /\ recorded = <<>>
  /\ written = FALSE

\* nothing is described on its own
NoPayload ==
  /\ shots = <<>>
  /\ blocked = {}
  /\ payload = <<>>

\* no site has been built
NoSite == site_dir = [cards |-> <<>>, pages |-> <<>>]

\* copy_RelevantImages.py does not run
NoStages ==
  /\ images_root = <<>>
  /\ rpc = "idle"
  /\ list_no = 0
  /\ cell_at = 0
  /\ seen_outputs = {}
  /\ seen_src_paths = {}
  /\ seen_prefixes = {}
  /\ copied_rows = <<>>
  /\ misses_rows = <<>>
  /\ logs = <<>>

NoRest == NoPayload /\ NoSite /\ NoStages

\* no function has been run on its own
NoUnits ==
  /\ NoParsers
  /\ NoIndex
  /\ NoMerge
  /\ NoCopy
  /\ NoRest
  /\ applied = {}

\* no process has run yet
NoRun ==
  /\ pc = "idle"
  /\ runs = 0
  /\ groups = <<>>
  /\ md_maps = <<>>
  /\ all_objs = <<>>
  /\ rows = <<>>
  /\ done = {}
  /\ idx = 0
  /\ processed_this_run = 0
  /\ meta = NoMeta
  /\ attempt = 0
  /\ wait = 0
  /\ resp = NoResponse
  /\ sleep_for = 0
  /\ apiCalls = 0
  /\ description = <<>>
  /\ apiLog = <<>>
  /\ describedThisRun = 0
  /\ interruptedAt = -1

NoProcess ==
  /\ NoRun
  /\ store = [exists |-> FALSE, rows |-> <<>>]

\* the pipeline on a small tree with every plan of answers, on a large tree (more
\* objects than BATCH_LIMIT) with a collaborator that always answers, on an empty
\* tree, and on the end-to-end scenario
Init ==
  /\ variant \in Variants
  /\ \/ /\ fs = Tree(NumObjects)
        /\ xls = PipelineTables
        /\ answers \in [TreeIds(NumObjects) -> Plans]
     \/ /\ fs = Tree(BATCH_LIMIT + ExtraObjects)
        /\ xls = PipelineTables
        /\ answers = [k \in TreeIds(BATCH_LIMIT + ExtraObjects) |-> <<AnswerText>>]
     \/ /\ fs = Tree(0)
        /\ xls = PipelineTables
        /\ answers = <<>>
     \/ /\ fs = ScenarioTree
        /\ xls = ScenarioTables
        /\ answers = [k \in {ScenarioId} |-> <<AnswerText>>]
  /\ NoProcess
  /\ NoUnits

\* the file systems and workbooks of the worlds above
FileSystems == {Tree(NumObjects), Tree(BATCH_LIMIT + ExtraObjects), Tree(0), ScenarioTree}
Workbooks == {PipelineTables, ScenarioTables}

\* groups = collect_images_by_object(INPUT_DIRS) of either script, and
\* read_metadata_excel of both workbooks, tabulated over the worlds: the functions
\* are pure, so a run reads its result from the table
GroupsOf ==
  [v \in Variants |->
     [d \in FileSystems |->
        IF v = "auto" THEN collect_images_by_object(d) ELSE collect_images_by_object_Hier(d)]]
MetadataOf ==
  [w \in Workbooks |-> <<read_metadata_excel(w[1]), read_metadata_excel(w[2])>>]

(* ------------------------------ the actions ---------------------------- *)
\* starting the script: a new process, nothing in memory
StartProcess ==
  /\ pc \in {"idle", "done"}
  /\ runs < MaxRuns
  /\ runs' = runs + 1
  /\ LocalsReset
  /\ pc' = IF variant = "auto" THEN "auth" ELSE "main"
  /\ UNCHANGED <<env, store, interruptedAt>>

\* the module-level auth test of autoOpenAIDescription.py: one API call; a failure
\* raises RuntimeError and ends the process before main
AuthTest ==
  /\ pc = "auth"
  /\ \E ok \in BOOLEAN :
       IF ok THEN pc' = "main" /\ apiLog' = Logged(apiLog, "ping_ok")
       ELSE pc' = "done" /\ apiLog' = Logged(apiLog, "ping_error")
  /\ UNCHANGED <<env, store, runs, locals, meta, retry, description, describedThisRun,
                 interruptedAt>>

\* main, up to the loop: collect the images, read the metadata, load the store
MainSetup ==
  /\ pc = "main"
  /\ LET g == GroupsOf[variant][fs]
     IN /\ groups' = g
        /\ IF DOMAIN g = {}
           THEN /\ pc' = "done"
                /\ UNCHANGED <<md_maps, all_objs, rows, done, idx>>
           ELSE /\ md_maps' = IF variant = "auto" THEN MetadataOf[xls] ELSE <<>>
                /\ done' = LoadDone(store)
                /\ rows' = LoadRows(store)
                /\ all_objs' = SortedStrs(DOMAIN g)
                /\ idx' = 1
                /\ pc' = "loop"
  /\ UNCHANGED <<env, store, runs, processed_this_run, meta, retry, description, apiLog,
                 describedThisRun, interruptedAt>>

\* mutant: off by one
BatchLimitOffByOne(n) == n > BATCH_LIMIT

\* if processed_this_run >= BATCH_LIMIT
BatchLimitReached(n) == n >= BATCH_LIMIT

\* one pass through the head of `for obj_id in all_objs`: the end of the list, an
\* object already done, the batch limit, or the start of describe_object
LoopHead ==
  /\ pc = "loop"
  /\ IF idx > Len(all_objs)
     THEN /\ pc' = "done"
          /\ UNCHANGED <<idx, meta, attempt, wait, apiCalls, describedThisRun>>
     ELSE IF all_objs[idx] \in done
     THEN /\ idx' = idx + 1
          /\ UNCHANGED <<pc, meta, attempt, wait, apiCalls, describedThisRun>>
     ELSE IF variant = "auto" /\ BatchLimitReached(processed_this_run)
     THEN /\ pc' = "done"
          /\ UNCHANGED <<idx, meta, attempt, wait, apiCalls, describedThisRun>>
     ELSE /\ meta' = IF variant = "auto"
                     THEN build_metadata_for_object(all_objs[idx], md_maps) ELSE NoMeta
          /\ describedThisRun' = describedThisRun + 1
          /\ attempt' = 1
          /\ wait' = InitialWait
          /\ apiCalls' = 0
          /\ pc' = "call"
          /\ UNCHANGED idx
  /\ UNCHANGED <<env, store, runs, groups, md_maps, all_objs, rows, done,
                 processed_this_run, resp, sleep_for, description, apiLog, interruptedAt>>

\* the answers the collaborator can give to this attempt
Choices ==
  IF all_objs[idx] \in DOMAIN answers
  THEN {PlanResponse(answers[all_objs[idx]], attempt)}
  ELSE Responses

\* one attempt of call_openai_with_retry: the request and what the except clause
\* decides; a pause, when one follows, is taken by Cooldown or Backoff
ApiCall ==
  /\ pc = "call"
  /\ \E r \in Choices, jitter \in Jitters :
       /\ resp' = r
       /\ apiCalls' = apiCalls + 1
       /\ apiLog' = Logged(apiLog, IF r.kind = "ok" THEN "call_ok" ELSE "call_error")
       /\ IF r.kind = "ok"
          THEN /\ pc' = "cooldown"
               /\ sleep_for' = REQUEST_COOLDOWN_SEC
               /\ UNCHANGED description
          ELSE IF IsRateLimitMsg(r.msg)
          THEN /\ pc' = "backoff"
               /\ sleep_for' = RateLimitSleep(r.msg, wait, jitter)
               /\ UNCHANGED description
          ELSE IF IsServerErrorMsg(r.msg)
          THEN /\ pc' = "backoff"
               /\ sleep_for' = ServerSleep(wait, jitter)
               /\ UNCHANGED description
          ELSE /\ pc' = "append"
               /\ description' = ErrorPlaceholder(variant, r.msg)
               /\ UNCHANGED sleep_for
  /\ UNCHANGED <<env, store, runs, locals, meta, attempt, wait, describedThisRun,
                 interruptedAt>>

\* mutant: the pause after a success is left out
CooldownSkipped ==
  /\ pc = "cooldown"
  /\ description' = AnswerOf(resp)
  /\ pc' = "append"
  /\ UNCHANGED <<env, store, runs, locals, meta, retry, apiLog, describedThisRun,
                 interruptedAt>>

\* time.sleep(REQUEST_COOLDOWN_SEC) after a success, then the return
Cooldown ==
  /\ pc = "cooldown"
  /\ apiLog' = Logged(apiLog, "cooldown")
  /\ description' = AnswerOf(resp)
  /\ pc' = "append"
  /\ UNCHANGED <<env, store, runs, locals, meta, retry, describedThisRun, interruptedAt>>

\* mutant: one attempt too many
AttemptsLeftOneMore(a) == a < MAX_RETRIES + 1

\* for attempt in range(1, MAX_RETRIES + 1): another attempt follows this one
AttemptsLeft(a) == a < MAX_RETRIES

\* mutant: main does not catch the exception, the run ends
BackoffUncaught ==
  /\ pc = "backoff"
  /\ apiLog' = Logged(apiLog, "backoff")
  /\ wait' = NextWait(wait)
  /\ IF AttemptsLeft(attempt)
     THEN attempt' = attempt + 1 /\ pc' = "call"
     ELSE pc' = "done" /\ UNCHANGED attempt
  /\ UNCHANGED <<env, store, runs, locals, meta, resp, sleep_for, apiCalls, description,
                 describedThisRun, interruptedAt>>

\* time.sleep(sleep_for) after a transient failure, the new wait, and the next
\* attempt or, after the last one, the RuntimeError
Backoff ==
  /\ pc = "backoff"
  /\ apiLog' = Logged(apiLog, "backoff")
  /\ wait' = NextWait(wait)
  /\ IF AttemptsLeft(attempt)
     THEN /\ attempt' = attempt + 1
          /\ pc' = "call"
          /\ UNCHANGED description
     ELSE /\ description' =
               ErrorPlaceholder(variant,
                                IF variant = "auto" THEN MaxRetriesMsg ELSE MaxRetriesMsgHier)
          /\ pc' = "append"
          /\ UNCHANGED attempt
  /\ UNCHANGED <<env, store, runs, locals, meta, resp, sleep_for, apiCalls, describedThisRun,
                 interruptedAt>>

\* the row main appends
NewRow ==
  IF variant = "auto"
  THEN [object_id |-> all_objs[idx], description |-> description,
        metadata |-> metadata_csv_line(meta)]
  ELSE [object_id |-> all_objs[idx], description |-> description]

\* mutant: the row is appended but not counted
AppendRowUncounted ==
  /\ pc = "append"
  /\ rows' = Append(rows, NewRow)
  /\ done' = IF variant = "auto" THEN done \cup {all_objs[idx]} ELSE done
  /\ pc' = "save"
  /\ UNCHANGED <<env, store, runs, groups, md_maps, all_objs, idx, processed_this_run, meta,
                 retry, description, apiLog, describedThisRun, interruptedAt>>

\* rows.append(...); done.add(obj_id); processed_this_run += 1
AppendRow ==
  /\ pc = "append"
  /\ rows' = Append(rows, NewRow)
  /\ done' = IF variant = "auto" THEN done \cup {all_objs[idx]} ELSE done
  /\ processed_this_run' = IF variant = "auto" THEN processed_this_run + 1
                           ELSE processed_this_run
  /\ pc' = "save"
  /\ UNCHANGED <<env, store, runs, groups, md_maps, all_objs, idx, meta, retry,
                 description, apiLog, describedThisRun, interruptedAt>>

\* mutant: the save is put off to the end of the run
SaveStoreDeferred ==
  /\ pc = "save"
  /\ idx' = idx + 1
  /\ pc' = "loop"
  /\ UNCHANGED <<env, store, runs, groups, md_maps, all_objs, rows, done,
                 processed_this_run, meta, retry, description, apiLog, describedThisRun,
                 interruptedAt>>

\* the save after each object, and the step to the next object
SaveStore ==
  /\ pc = "save"
  /\ store' = to_excel(variant, rows)
  /\ idx' = idx + 1
  /\ pc' = "loop"
  /\ UNCHANGED <<env, runs, groups, md_maps, all_objs, rows, done, processed_this_run,
                 meta, retry, description, apiLog, describedThisRun, interruptedAt>>

\* the process is terminated from outside: memory is lost, the store stays
Kill ==
  /\ pc \notin {"idle", "done"}
  /\ pc' = "idle"
  /\ LocalsReset
  /\ interruptedAt' = Len(store.rows)
  /\ UNCHANGED <<env, store, runs>>

Next ==
  \/ StartProcess
  \/ AuthTest
  \/ MainSetup
  \/ LoopHead
  \/ ApiCall
  \/ Cooldown
  \/ Backoff
  \/ AppendRow
  \/ SaveStore
  \/ Kill

Spec == Init /\ [][Next]_vars

\* one or more uninterrupted runs against a collaborator that may answer anything
\* at every attempt; a started process keeps running
InitRetry ==
  /\ variant \in Variants
  /\ fs = Tree(NumObjects)
  /\ xls = PipelineTables
  /\ answers = <<>>
  /\ NoProcess
  /\ NoUnits

NextRetry ==
  \/ StartProcess
  \/ AuthTest
  \/ MainSetup
  \/ LoopHead
  \/ ApiCall
  \/ Cooldown
  \/ Backoff
  \/ AppendRow
  \/ SaveStore

SpecRetry == InitRetry /\ [][NextRetry]_vars /\ WF_vars(NextRetry)

(* --------------------- the parsers run on their own -------------------- *)
\* numeric triples (prefix, year, code) and the spellings of a cell that carries one
Triples ==
  { << <<"1">>, <<"1", "9", "9", "7">>, <<"0", "4", "5", "7">> >>,
    << <<"1", "2">>, <<"1", "9", "9", "8">>, <<"0", "0", "0", "1">> >> }

Separators == { <<"/">>, <<"-">> }
Paddings == { <<>>, <<" ">> }
VariantTexts == { <<>>, <<" ", "0">>, <<" ", "1">> }

\* the canonical identifier "prefix-year-code"
Canonical(t) == t[1] \o <<"-">> \o t[2] \o <<"-">> \o t[3]

\* the triple t written with separator sep, pad around the separators, and the
\* variant text v after the code
Spelling(t, sep, pad, v) ==
  t[1] \o pad \o sep \o pad \o t[2] \o pad \o sep \o pad \o t[3] \o v

\* the spellings of t without and with leading and trailing whitespace
Spellings(t) ==
  {lead \o Spelling(t, sep, pad, v) \o trail :
     sep \in Separators, pad \in Paddings, v \in VariantTexts,
     lead \in Paddings, trail \in Paddings}

\* other text in front of an object number, and a second object number behind it
LeadTexts == { <<>>, <<"N", "r", " ">> }
Trailers ==
  {<<>>} \cup {<<" ">> \o Spelling(t, sep, <<>>, v) :
                 t \in Triples, sep \in Separators, v \in VariantTexts}

\* an object number whose third group has three digits: "1/1997/045 0"
ShortCodeCell == <<"1", "/", "1", "9", "9", "7", "/", "0", "4", "5", " ", "0">>

\* the cells the parsers are given: an empty cell, every spelling, and every
\* unpadded spelling with text in front and an object number behind
Cells ==
  {None, ShortCodeCell}
    \cup UNION {Spellings(t) : t \in Triples}
    \cup {text \o Spelling(t, sep, <<>>, v) \o rest :
            text \in LeadTexts, t \in Triples, sep \in Separators,
            v \in VariantTexts \ {<<>>}, rest \in Trailers}

InitParsers ==
  /\ variant = "auto"
  /\ fs = Tree(0)
  /\ xls = PipelineTables
  /\ answers = <<>>
  /\ NoProcess
  /\ cell \in Cells
  /\ normalized = None
  /\ parsed = None
  /\ parsed_excel = None
  /\ NoIndex
  /\ NoRest
  /\ NoMerge
  /\ NoCopy
  /\ applied = {}

\* obj_norm = normalize_obj_id_from_excel(row.get("t1"))
Normalize ==
  /\ "normalize_obj_id_from_excel" \notin applied
  /\ normalized' = normalize_obj_id_from_excel(cell)
  /\ applied' = applied \cup {"normalize_obj_id_from_excel"}
  /\ UNCHANGED <<process_vars, rest_units, fs, cell, parsed, parsed_excel, index_vars, merge_vars, copy_vars>>

\* parsed = parse_object_number(raw) in process_list of copy_RelevantImages.py
ParseRelevant ==
  /\ "parse_object_number" \notin applied
  /\ parsed' = parse_object_number(cell)
  /\ applied' = applied \cup {"parse_object_number"}
  /\ UNCHANGED <<process_vars, rest_units, fs, cell, normalized, parsed_excel, index_vars, merge_vars, copy_vars>>

\* parsed = parse_object_number(raw) in main of copy_images_from_excel.py
ParseExcel ==
  /\ "parse_object_number_excel" \notin applied
  /\ parsed_excel' = parse_object_number_excel(cell)
  /\ applied' = applied \cup {"parse_object_number_excel"}
  /\ UNCHANGED <<process_vars, rest_units, fs, cell, normalized, parsed, index_vars, merge_vars, copy_vars>>

NextParsers ==
  \/ Normalize
  \/ ParseRelevant
  \/ ParseExcel

SpecParsers == InitParsers /\ [][NextParsers]_vars

(* --------------------- the indexers run on their own ------------------- *)
\* the files a root holds at most
MaxFiles == 2

IndexStem(a, b) ==
  ScenarioId \o <<"-", "0", "0", "0", "-", "0">> \o <<Digit(a), Digit(b)>>

\* images of object 1-1997-0457: two sequence numbers, the same stem with another
\* extension and with an upper-case extension, one name in two sizes, and two names
\* without sequence groups
IndexFiles ==
  { File(IndexStem(0, 3) \o Jpg, 1), File(IndexStem(0, 3) \o Jpg, 2),
    File(IndexStem(1, 2) \o Jpg, 1),
    File(IndexStem(0, 3) \o Png, 1),
    File(IndexStem(0, 3) \o JpgUpper, 1),
    File(ScenarioId \o <<"-", "0">> \o Jpg, 1),
    File(ScenarioId \o <<"-", "a">> \o Jpg, 1) }

\* the enumerations of a directory of at most n files: names are unique in it
Listings(n) ==
  UNION { { s \in [1..k -> IndexFiles] :
              \A i \in 1..k : \A j \in 1..k : s[i].name = s[j].name => i = j }
          : k \in 0..n }

\* the first root holds up to MaxFiles files, the second is missing or holds at
\* most one
InitIndex ==
  /\ variant = "auto"
  /\ xls = PipelineTables
  /\ answers = <<>>
  /\ NoProcess
  /\ NoParsers
  /\ NoRest
  /\ NoMerge
  /\ NoCopy
  /\ applied = {}
  /\ NoIndex
  /\ \E first \in Listings(MaxFiles) :
       \/ fs = << [exists |-> TRUE, entries |-> first], [exists |-> FALSE, entries |-> <<>>] >>
       \/ \E second \in Listings(1) :
            fs = << [exists |-> TRUE, entries |-> first], [exists |-> TRUE, entries |-> second] >>

\* groups = collect_images_by_object(INPUT_DIRS) of autoOpenAIDescription.py
BuildAuto ==
  /\ "auto" \notin applied
  /\ index_auto' = collect_images_by_object(fs)
  /\ applied' = applied \cup {"auto"}
  /\ UNCHANGED <<process_vars, rest_units, fs, parser_vars, index_hier, site_images, merge_vars, copy_vars>>

\* groups = collect_images_by_object(INPUT_DIRS) of automatic_description_Hier.py
BuildHier ==
  /\ "hier" \notin applied
  /\ index_hier' = collect_images_by_object_Hier(fs)
  /\ applied' = applied \cup {"hier"}
  /\ UNCHANGED <<process_vars, rest_units, fs, parser_vars, index_auto, site_images, merge_vars, copy_vars>>

\* images = collect_images_for_object(obj_id) in main of build_site.py
BuildSite ==
  /\ "site" \notin applied
  /\ site_images' = collect_images_for_object(ScenarioId, fs)
  /\ applied' = applied \cup {"site"}
  /\ UNCHANGED <<process_vars, rest_units, fs, parser_vars, index_auto, index_hier, merge_vars, copy_vars>>

NextIndex ==
  \/ BuildAuto
  \/ BuildHier
  \/ BuildSite

SpecIndex == InitIndex /\ [][NextIndex]_vars

(* ----------------------- the merge run on its own ---------------------- *)
\* the source mappings a merge is given at most
MaxSources == 2

\* a key an entry does not have
Absent == <<"absent">>

\* an entry of a source mapping: an inventory number and contributors that are
\* absent, the sentinel or a value, and the six other fields absent or filled
EntryOf(inv, con, rest) ==
  LET present == (IF inv = Absent THEN {} ELSE {"InventoryNo"})
                   \cup (IF con = Absent THEN {} ELSE {"Contributors"})
                   \cup (IF rest THEN FieldNames \ {"InventoryNo", "Contributors"} ELSE {})
  IN [k \in present |->
        IF k = "InventoryNo" THEN inv ELSE IF k = "Contributors" THEN con ELSE <<"T">>]

\* the entries that lack the six other fields, and the complete ones
SourceEntries ==
  { EntryOf(inv, con, FALSE) :
      inv \in {Absent, NoData, <<"A">>},
      con \in {Absent, NoData, <<"A">>, <<" ", "E">>} }
    \cup { EntryOf(<<"A">>, con, TRUE) : con \in {<<"A">>, <<" ", "E">>} }

\* a mapping holds the object 1-1997-0457 with some entry, or another object only
SourceMappings ==
  { [k \in {ScenarioId} |-> e] : e \in SourceEntries }
    \cup { [k \in {ObjectName(1)} |-> EntryOf(<<"A">>, <<"A">>, TRUE)] }

SourceLists(n) == UNION { [1..k -> SourceMappings] : k \in 0..n }

InitMerge ==
  /\ variant = "auto"
  /\ fs = Tree(0)
  /\ xls = PipelineTables
  /\ answers = <<>>
  /\ NoProcess
  /\ NoParsers
  /\ NoRest
  /\ NoIndex
  /\ NoCopy
  /\ applied = {}
  /\ srcs \in SourceLists(MaxSources)
  /\ ident \in {ScenarioId, ObjectName(1)}
  /\ record = None
  /\ doubled = None
  /\ remerged = None

\* meta = build_metadata_for_object(obj_id, md_maps)
MergeSources ==
  /\ "merge" \notin applied
  /\ record' = build_metadata_for_object(ident, srcs)
  /\ applied' = applied \cup {"merge"}
  /\ UNCHANGED <<process_vars, rest_units, fs, parser_vars, index_vars, srcs, ident, doubled, remerged,
                 copy_vars>>

\* build_metadata_for_object with every source listed twice
MergeDoubled ==
  /\ "double" \notin applied
  /\ doubled' = build_metadata_for_object(ident, srcs \o srcs)
  /\ applied' = applied \cup {"double"}
  /\ UNCHANGED <<process_vars, rest_units, fs, parser_vars, index_vars, srcs, ident, record, remerged,
                 copy_vars>>

\* build_metadata_for_object with the merged record as both sources
MergeAgain ==
  /\ "merge" \in applied
  /\ "again" \notin applied
  /\ remerged' = build_metadata_for_object(ident, << [k \in {ident} |-> record],
                                                     [k \in {ident} |-> record] >>)
  /\ applied' = applied \cup {"again"}
  /\ UNCHANGED <<process_vars, rest_units, fs, parser_vars, index_vars, srcs, ident, record, doubled,
                 copy_vars>>

NextMerge ==
  \/ MergeSources
  \/ MergeDoubled
  \/ MergeAgain

SpecMerge == InitMerge /\ [][NextMerge]_vars

(* ------------------------ the copy scripts' loops ---------------------- *)
\* the objects of the list that have matches, at most
MaxListed == 2
\* the files matched for one object, at most
MaxMatches == 2

Copiers == {"copy_RelevantImages", "copy_images_from_excel", "clau_ver"}

\* the work of a run: per object of the list the files found for it, file <<o, f>>
\* being the f-th match of the o-th object
Worklists ==
  UNION { { [o \in 1..n |-> [f \in 1..m[o] |-> <<o, f>>]] : m \in [1..n -> 1..MaxMatches] }
          : n \in 1..MaxListed }

\* the matched files of a run
FilesOf(w) == UNION { { w[o][f] : f \in 1..Len(w[o]) } : o \in 1..Len(w) }

\* a script is about to run on a list; at most one of the matched files cannot be
\* copied
InitCopy ==
  /\ variant = "auto"
  /\ fs = Tree(0)
  /\ xls = PipelineTables
  /\ answers = <<>>
  /\ NoProcess
  /\ NoParsers
  /\ NoRest
  /\ NoIndex
  /\ NoMerge
  /\ applied = {}
  /\ copier \in Copiers
  /\ worklist \in Worklists
  /\ \E bad \in SUBSET FilesOf(worklist) :
       /\ Cardinality(bad) <= 1
       /\ unreadable = bad
  /\ cpc = "idle"
  /\ at = <<0, 0>>
  /\ attempted = {}
  /\ recorded = <<>>
  /\ written = FALSE

\* the script starts and reaches the first matched file of the first object
StartCopy ==
  /\ cpc = "idle"
  /\ cpc' = "copying"
  /\ at' = <<1, 1>>
  /\ UNCHANGED <<process_vars, rest_units, fs, parser_vars, index_vars, merge_vars, applied,
                 copier, worklist, unreadable, attempted, recorded, written>>

\* what the script has recorded once shutil.copy2 returned for the file
AfterCopy(log, o, f) == Append(log, <<o, f, "copied">>)

\* what copy_images_from_excel.py appends after the files of an object: the row
\* with "ok" or "partial_or_none"
ObjectRow(log, o) ==
  LET copied_for_object ==
        Cardinality({ i \in 1..Len(log) : log[i][1] = o /\ log[i][3] = "copied" })
  IN Append(log, <<o, 0, IF copied_for_object = Len(worklist[o])
                         THEN "ok" ELSE "partial_or_none">>)

\* one shutil.copy2(src, dst) and what the script does with its outcome: the
\* except clauses of copy_images_from_excel.py and clau_ver.py record the error and
\* go on; copy_matches of copy_RelevantImages.py has none, the exception leaves
\* copy_matches, process_list and main
CopyFile ==
  /\ cpc = "copying"
  /\ LET o == at[1]
         f == at[2]
         raised == worklist[o][f] \in unreadable
         log == IF ~raised THEN AfterCopy(recorded, o, f)
                ELSE IF copier = "copy_images_from_excel"
                     THEN Append(recorded, <<o, f, "copy_error">>)
                     ELSE IF copier = "clau_ver"
                          THEN Append(recorded, <<o, f, "error">>)
                          ELSE recorded
         lastOfObject == f = Len(worklist[o])
     IN /\ attempted' = attempted \cup {worklist[o][f]}
        /\ IF raised /\ copier = "copy_RelevantImages"
           THEN /\ cpc' = "crashed"
                /\ recorded' = log
                /\ at' = at
           ELSE /\ recorded' = IF lastOfObject /\ copier = "copy_images_from_excel"
                               THEN ObjectRow(log, o) ELSE log
                /\ at' = IF lastOfObject THEN <<o + 1, 1>> ELSE <<o, f + 1>>
                /\ cpc' = IF lastOfObject /\ o = Len(worklist) THEN "report" ELSE "copying"
  /\ UNCHANGED <<process_vars, rest_units, fs, parser_vars, index_vars, merge_vars, applied,
                 copier, worklist, unreadable, written>>

\* after the loop: the copied and misses logs, the report CSV, the printed summary
WriteLogs ==
  /\ cpc = "report"
  /\ written' = TRUE
  /\ cpc' = "done"
  /\ UNCHANGED <<process_vars, rest_units, fs, parser_vars, index_vars, merge_vars, applied,
                 copier, worklist, unreadable, at, attempted, recorded>>

NextCopy ==
  \/ StartCopy
  \/ CopyFile
  \/ WriteLogs

SpecCopy == InitCopy /\ [][NextCopy]_vars

(* --------------------- the request built on its own -------------------- *)
\* how many images more than MAX_IMAGES_PER_OBJECT an object has at most
ExtraImages == 2

MAX_IMAGES_PER_OBJECT == 5

\* build_message_content(prompt_text, image_paths): the images appended to
\* the content after the text, an image that raises on loading is left out
build_message_content(image_paths, cannot) ==
  SelectSeq(image_paths, LAMBDA p : p \notin cannot)

\* the selection that is made after loading instead of before it
describe_object_first_readable(image_paths, cannot) ==
  LET readable == build_message_content(image_paths, cannot)
  IN Slice(readable, 1, IF Len(readable) < MAX_IMAGES_PER_OBJECT THEN Len(readable)
                        ELSE MAX_IMAGES_PER_OBJECT)

\* describe_object(obj_id, image_paths, meta): the images of the content that
\* goes to call_openai_with_retry
describe_object(image_paths, cannot) ==
  LET selected == Slice(image_paths, 1,
                        IF Len(image_paths) < MAX_IMAGES_PER_OBJECT THEN Len(image_paths)
                        ELSE MAX_IMAGES_PER_OBJECT)
  IN build_message_content(selected, cannot)

\* the sorted images of one object, as collect_images_by_object lists them
Shots(n) == [k \in 1..n |-> ImageName(1, k - 1, Jpg)]

\* an object with up to MAX_IMAGES_PER_OBJECT + ExtraImages images, any of
\* which may be unreadable
InitPayload ==
  /\ variant = "auto"
  /\ fs = Tree(0)
  /\ xls = PipelineTables
  /\ answers = <<>>
  /\ NoProcess
  /\ NoParsers
  /\ NoIndex
  /\ NoMerge
  /\ NoCopy
  /\ NoSite
  /\ NoStages
  /\ applied = {}
  /\ \E n \in 0..(MAX_IMAGES_PER_OBJECT + ExtraImages) :
       /\ shots = Shots(n)
       /\ blocked \in SUBSET { shots[k] : k \in 1..n }
  /\ payload = <<>>

\* describe_object up to the call of the collaborator
DescribeObject ==
  /\ "describe_object" \notin applied
  /\ payload' = describe_object(shots, blocked)
  /\ applied' = applied \cup {"describe_object"}
  /\ UNCHANGED <<process_vars, fs, parser_vars, index_vars, merge_vars, copy_vars,
                 shots, blocked, site_dir, stage_vars>>

SpecPayload == InitPayload /\ [][DescribeObject]_vars

(* ------------------------------- the site ------------------------------ *)
\* IMAGES_ROOTS of build_site.py: the two output folders, which are INPUT_DIRS
\* of the pipeline, and images/, which these worlds do not have
SiteRoots(d) == d \o << [exists |-> FALSE, entries |-> <<>>] >>

\* str(getattr(row, col)) of a cell that pd.read_excel has read
CellStr(c) == IF ReadCell(c) = NaN THEN <<"n", "a", "n">> ELSE c

\* the trees and identifiers the site is built for
ViewTrees == {Tree(NumObjects), Tree(0)}
ViewIds == TreeIds(NumObjects + 1)

\* collect_images_for_object tabulated: the function is pure
SiteImagesOf ==
  [d \in ViewTrees |-> [o \in ViewIds |-> collect_images_for_object(o, SiteRoots(d))]]

\* append_index_card(cards, obj_id, first_img_path): the card that is appended;
\* the path is given by its file name
append_index_card(obj_id, first_img_path) ==
  [obj_id |-> obj_id,
   img |-> IF first_img_path = None THEN <<"No image">> ELSE first_img_path]

\* render_object_page(obj_id, description, images): the page that is written
render_object_page(obj_id, text, images) ==
  [obj_id |-> obj_id, description |-> text,
   images |-> [i \in 1..Len(images) |-> images[i].name]]

\* a site directory that has never been written
EmptySite == [cards |-> <<>>, pages |-> <<>>]

\* the rows of the store as main of build_site.py reads them
SiteRows(st) ==
  [i \in 1..Len(st.rows) |->
     [obj_id |-> CellStr(st.rows[i]["object_id"]),
      description |-> CellStr(st.rows[i]["description"])]]

\* main of build_site.py on the store st, the roots d and the site directory
\* old: ensure_dirs creates what is missing and removes nothing, write_assets
\* writes the empty index, a missing store ends the run there; else every row
\* gets its page written and its card appended, and the index is written
build_site(st, d, old) ==
  IF ~st.exists THEN [cards |-> <<>>, pages |-> old.pages]
  ELSE LET shown == SiteRows(st)
           ids == {shown[i].obj_id : i \in 1..Len(shown)} \cup DOMAIN old.pages
           Last(o) == CHOOSE i \in 1..Len(shown) :
                        /\ shown[i].obj_id = o
                        /\ \A j \in (i + 1)..Len(shown) : shown[j].obj_id # o
           FirstOf(images) == IF images # <<>> THEN images[1].name ELSE None
       IN [cards |-> [i \in 1..Len(shown) |->
                        append_index_card(shown[i].obj_id,
                                          FirstOf(SiteImagesOf[d][shown[i].obj_id]))],
           pages |-> IF ids = {} THEN <<>>
                     ELSE [o \in ids |->
                             IF \E i \in 1..Len(shown) : shown[i].obj_id = o
                             THEN render_object_page(o, shown[Last(o)].description,
                                                     SiteImagesOf[d][o])
                             ELSE old.pages[o]]]

\* the store an earlier run has left for an object whose images are no longer
\* under the roots
EarlierStore ==
  to_excel("auto",
           << [object_id |-> ObjectName(NumObjects + 1), description |-> <<"Entry">>,
               metadata |-> metadata_csv_line(
                              [NoMeta EXCEPT !.InventoryNo = ObjectName(NumObjects + 1)])] >>)

\* the pipeline and the site builder side by side: a tree with images and an
\* empty one, a collaborator that always answers, with or without an earlier
\* store and with or without the site that was built from it
InitView ==
  /\ variant = "auto"
  /\ \/ /\ fs = Tree(NumObjects)
        /\ answers = [k \in TreeIds(NumObjects) |-> <<AnswerText>>]
     \/ /\ fs = Tree(0)
        /\ answers = <<>>
  /\ xls = PipelineTables
  /\ NoRun
  /\ store \in {[exists |-> FALSE, rows |-> <<>>], EarlierStore}
  /\ NoParsers
  /\ NoIndex
  /\ NoMerge
  /\ NoCopy
  /\ NoPayload
  /\ NoStages
  /\ applied = {}
  /\ site_dir \in {EmptySite, build_site(EarlierStore, Tree(0), EmptySite)}

\* a run of build_site.py while no pipeline process runs
SiteMain ==
  /\ pc \in {"idle", "done"}
  /\ site_dir' = build_site(store, fs, site_dir)
  /\ applied' = applied \cup {"build_site"}
  /\ UNCHANGED <<process_vars, fs, parser_vars, index_vars, merge_vars, copy_vars,
                 payload_vars, stage_vars>>

NextView ==
  \/ StartProcess
  \/ AuthTest
  \/ MainSetup
  \/ LoopHead
  \/ ApiCall
  \/ Cooldown
  \/ AppendRow
  \/ SaveStore
  \/ Kill
  \/ SiteMain

SpecView == InitView /\ [][NextView]_vars

(* ------------------- the copy stage and what follows it ---------------- *)
\* the rows of the first list at most
MaxCells == 2

Y1997 == <<"1", "9", "9", "7">>
Y1998 == <<"1", "9", "9", "8">>
OtherId == <<"1", "2", "-", "1", "9", "9", "8", "-", "0", "0", "0", "1">>
Shot(id, k, ext) == id \o <<"-", "0", "0", "0", "-", "0", "0", Digit(k)>> \o ext

\* the object of the scenario with another variant number, an object of 1998,
\* a cell without object number
SameObjectCell == <<"1", "/", "1", "9", "9", "7", "/", "0", "4", "5", "7", " ", "1">>
OtherYearCell == <<"1", "2", "/", "1", "9", "9", "8", "/", "0", "0", "0", "1", " ", "0">>
BadCell == <<"n", "/", "a">>
StageCells == {ScenarioCell, SameObjectCell, OtherYearCell, BadCell, <<>>}

\* a file without object identifier in its name
JunkFile == File(<<"x">> \o Jpg, 1)

\* the lists: data/Liste_Schreibmaschinen.xls may be missing, the second
\* workbook stands for the rows 3500..4499 of the AEG list
ListOf(cells) == [exists |-> TRUE, rows |-> [i \in 1..Len(cells) |-> [EmptyRow EXCEPT !.t1 = cells[i]]]]
StageLists ==
  { << first, ListOf(<<OtherYearCell>>) >> :
      first \in {[exists |-> FALSE, rows |-> <<>>]}
                  \cup { ListOf(cells) :
                           cells \in UNION {[1..n -> StageCells] : n \in 0..MaxCells} } }

\* images/<year>/ for the two years
StageImages ==
  { [y \in {Y1997, Y1998} |-> IF y = Y1997 THEN a ELSE b] :
      a \in { [exists |-> TRUE,
               entries |-> <<File(Shot(ScenarioId, 2, Jpg), 2), File(Shot(ScenarioId, 1, Jpg), 1)>>],
              [exists |-> TRUE,
               entries |-> <<File(Shot(ScenarioId, 1, Jpg), 2),
                             File(Shot(ScenarioId, 1, JpgUpper), 1)>>] },
      b \in { [exists |-> FALSE, entries |-> <<>>],
              [exists |-> TRUE, entries |-> <<File(Shot(OtherId, 1, Jpg), 1)>>] } }

\* output/aeg and output/schreibmaschinen before the run: nothing, or what an
\* earlier run and the user have left in output/schreibmaschinen
StageOutputs ==
  { << [exists |-> FALSE, entries |-> <<>>], second >> :
      second \in { [exists |-> FALSE, entries |-> <<>>],
                   [exists |-> TRUE,
                    entries |-> <<File(Shot(ScenarioId, 1, Jpg), 1), JunkFile>>] } }

\* which of INPUT_DIRS is the out_dir of a list: OUT_SCHREIB for the first
OutOf(k) == IF k = 1 THEN 2 ELSE 1

\* series.dropna().map(strip).drop_duplicates() with the index of the rows kept
Series(table) ==
  LET rws == table.rows
      vals == [i \in 1..Len(rws) |-> ReadCell(rws[i].t1)]
      kept == {i \in 1..Len(rws) :
                 /\ vals[i] # NaN
                 /\ \A j \in 1..(i - 1) : vals[j] = NaN \/ Strip(vals[j]) # Strip(vals[i])}
      F[i \in 0..Len(rws)] ==
        IF i = 0 THEN <<>>
        ELSE IF i \in kept
        THEN Append(F[i - 1], [row_index |-> i - 1, raw_T1 |-> Strip(vals[i])])
        ELSE F[i - 1]
  IN F[Len(rws)]

\* find_matching_files(images_root, year, base_prefix): the matches, and whether
\* the year folder is missing
find_matching_files(tree, year, base_prefix) ==
  IF year \notin DOMAIN tree \/ ~tree[year].exists THEN [files |-> <<>>, err |-> TRUE]
  ELSE LET Wanted(p) == /\ Lower(PathSuffix(p.name)) \in ALLOWED_EXTS
                        /\ StartsWith(Lower(p.name), Lower(base_prefix))
       IN [files |-> SelectSeq(tree[year].entries, Wanted), err |-> FALSE]

\* sorted(files): the files of one folder in the order of their paths
SortedFiles(files) ==
  LET names == SortedStrs({files[i].name : i \in 1..Len(files)})
  IN [k \in 1..Len(names) |->
        files[CHOOSE i \in 1..Len(files) : files[i].name = names[k]]]

\* shutil.copy2(src, final_dst) into a folder
Copy2(entries, f) ==
  IF \E j \in 1..Len(entries) : entries[j].name = f.name
  THEN [j \in 1..Len(entries) |-> IF entries[j].name = f.name THEN f ELSE entries[j]]
  ELSE Append(entries, f)

\* mutant: the destination is out_dir / src.name whatever is there
final_dst_unchecked(name, seen_out, existing) == name

\* the while loop of copy_matches: the first of name, stem_1.suffix,
\* stem_2.suffix, ... that is neither in seen_outputs nor in the folder
final_dst(name, seen_out, existing) ==
  LET Candidate(n) ==
        IF n = 0 THEN name ELSE PathStem(name) \o <<"_", Digit(n)>> \o PathSuffix(name)
      Taken(c) == Lower(c) \in seen_out \/ c \in existing
      n == CHOOSE k \in 0..9 : ~Taken(Candidate(k)) /\ \A j \in 0..(k - 1) : Taken(Candidate(j))
  IN Candidate(n)

\* the body of `for src in sorted(files)` of copy_matches on the locals of
\* process_list: a source seen before is skipped, another one is copied to
\* final and recorded
copy_one(a, src, src_key, final, meta_row) ==
  IF src_key \in a.seen_src THEN a
  ELSE [a EXCEPT !.seen_src = a.seen_src \cup {src_key},
                 !.out = Copy2(a.out, File(final, src.size)),
                 !.seen_out = a.seen_out \cup {Lower(final)},
                 !.copied = Append(a.copied,
                                   [row_index |-> meta_row.row_index,
                                    raw_T1 |-> meta_row.raw_T1,
                                    year |-> meta_row.year,
                                    base_prefix |-> meta_row.base_prefix,
                                    source_path |-> <<meta_row.year, src.name>>,
                                    target_path |-> final])]

\* src_key = str(src.resolve()).lower() and the destination of one source
copy_src(a, src, meta_row) ==
  copy_one(a, src, <<meta_row.year, Lower(src.name)>>,
           final_dst(src.name, a.seen_out, {a.out[j].name : j \in 1..Len(a.out)}),
           meta_row)

\* the loop of copy_matches over the sorted files
RECURSIVE copy_sorted(_, _, _)
copy_sorted(files, frame, meta_row) ==
  IF files = <<>> THEN frame
  ELSE copy_sorted(Tail(files), copy_src(frame, Head(files), meta_row), meta_row)

\* copy_matches(files, out_dir, seen_outputs, seen_src_paths, meta_row,
\* copied_rows) on the locals of process_list
copy_matches(files, frame, meta_row) == copy_sorted(SortedFiles(files), frame, meta_row)

Miss(item, reason) == [row_index |-> item.row_index, raw_T1 |-> item.raw_T1, reason |-> reason]

\* what process_list does with the files found for a new prefix
process_found(begun, item, base_prefix, year, found) ==
  IF found.err
  THEN [begun EXCEPT !.misses = Append(begun.misses, Miss(item, "missing year folder"))]
  ELSE IF found.files = <<>>
  THEN [begun EXCEPT !.misses = Append(begun.misses, Miss(item, "no files"))]
  ELSE copy_matches(found.files, begun,
                    [row_index |-> item.row_index, raw_T1 |-> item.raw_T1,
                     year |-> year, base_prefix |-> base_prefix])

\* what process_list does with a parsed cell: a (year, prefix) seen before is
\* skipped
process_parsed(frame, item, tree, base_prefix, year) ==
  IF <<year, Lower(base_prefix)>> \in frame.seen_pre THEN frame
  ELSE process_found([frame EXCEPT !.seen_pre = frame.seen_pre \cup {<<year, Lower(base_prefix)>>}],
                     item, base_prefix, year, find_matching_files(tree, year, base_prefix))

\* what process_list does with the result of parse_object_number
process_result(frame, item, tree, parsed_no) ==
  IF parsed_no = None
  THEN [frame EXCEPT !.misses = Append(frame.misses, Miss(item, "no object number"))]
  ELSE process_parsed(frame, item, tree, parsed_no[1], parsed_no[2])

\* mutant: nothing is done for a cell
process_cell_silent(frame, item, tree) == frame

\* one iteration of `for idx, raw in series.items()` of process_list on its
\* locals and the out_dir
process_cell(frame, item, tree) ==
  process_result(frame, item, tree, parse_object_number(item.raw_T1))

\* the locals of process_list and its out_dir
Frame ==
  [out |-> fs[OutOf(list_no)].entries, seen_out |-> seen_outputs, seen_src |-> seen_src_paths,
   seen_pre |-> seen_prefixes, copied |-> copied_rows, misses |-> misses_rows]

\* copy_RelevantImages.py is about to run
InitStages ==
  /\ variant = "auto"
  /\ answers = <<>>
  /\ NoProcess
  /\ NoParsers
  /\ NoIndex
  /\ NoMerge
  /\ NoCopy
  /\ NoPayload
  /\ NoSite
  /\ applied = {}
  /\ xls \in StageLists
  /\ images_root \in StageImages
  /\ fs \in StageOutputs
  /\ rpc = "idle"
  /\ list_no = 0
  /\ cell_at = 0
  /\ seen_outputs = {}
  /\ seen_src_paths = {}
  /\ seen_prefixes = {}
  /\ copied_rows = <<>>
  /\ misses_rows = <<>>
  /\ logs = <<>>

stage_rest ==
  <<variant, answers, store, pc, runs, groups, all_objs, rows, done, idx, processed_this_run,
    meta, retry, description, apiLog, describedThisRun, interruptedAt, parser_vars,
    index_hier, site_images, merge_vars, copy_vars, payload_vars, site_dir>>

\* process_list up to the loop: the out_dir is created, then the column is read;
\* a workbook that is missing makes pd.read_excel raise in both attempts of
\* read_excel_column, and nothing in main catches it
StartList ==
  /\ rpc \in {"idle", "next"}
  /\ list_no' = list_no + 1
  /\ fs' = [fs EXCEPT ![OutOf(list_no + 1)].exists = TRUE]
  /\ rpc' = IF xls[list_no + 1].exists THEN "loop" ELSE "crashed"
  /\ cell_at' = 1
  /\ seen_outputs' = {}
  /\ seen_src_paths' = {}
  /\ seen_prefixes' = {}
  /\ copied_rows' = <<>>
  /\ misses_rows' = <<>>
  /\ UNCHANGED <<stage_rest, xls, md_maps, index_auto, applied, images_root, logs>>

\* the locals and the out_dir after an iteration
AssignFrame(next) ==
  /\ fs' = [fs EXCEPT ![OutOf(list_no)].entries = next.out]
  /\ seen_outputs' = next.seen_out
  /\ seen_src_paths' = next.seen_src
  /\ seen_prefixes' = next.seen_pre
  /\ copied_rows' = next.copied
  /\ misses_rows' = next.misses

ProcessCell ==
  /\ rpc = "loop"
  /\ cell_at <= Len(Series(xls[list_no]))
  /\ AssignFrame(process_cell(Frame, Series(xls[list_no])[cell_at], images_root))
  /\ cell_at' = cell_at + 1
  /\ UNCHANGED <<stage_rest, xls, md_maps, index_auto, applied, images_root, rpc, list_no, logs>>

\* the two logs of the list are written; main goes on to the second list
WriteListLogs ==
  /\ rpc = "loop"
  /\ cell_at > Len(Series(xls[list_no]))
  /\ logs' = Append(logs, [list |-> list_no, copied |-> copied_rows, misses |-> misses_rows])
  /\ rpc' = IF list_no = 2 THEN "done" ELSE "next"
  /\ UNCHANGED <<stage_rest, xls, md_maps, index_auto, applied, images_root, fs, list_no,
                 cell_at, seen_outputs, seen_src_paths, seen_prefixes, copied_rows,
                 misses_rows>>

\* groups = collect_images_by_object(INPUT_DIRS) of the pipeline on the output
\* folders
IndexOutput ==
  /\ rpc \in {"done", "crashed"}
  /\ "collect_images_by_object" \notin applied
  /\ index_auto' = collect_images_by_object(fs)
  /\ applied' = applied \cup {"collect_images_by_object"}
  /\ UNCHANGED <<stage_rest, xls, md_maps, fs, stage_vars>>

\* md_schreib, md_aeg = read_metadata_excel of the two lists
ReadLists ==
  /\ rpc \in {"done", "crashed"}
  /\ "read_metadata_excel" \notin applied
  /\ md_maps' = <<read_metadata_excel(xls[1]), read_metadata_excel(xls[2])>>
  /\ applied' = applied \cup {"read_metadata_excel"}
  /\ UNCHANGED <<stage_rest, xls, index_auto, fs, stage_vars>>

NextStages ==
  \/ StartList
  \/ ProcessCell
  \/ WriteListLogs
  \/ IndexOutput
  \/ ReadLists

SpecStages == InitStages /\ [][NextStages]_vars

(* ------------------------------ the claims ----------------------------- *)
InLoop == pc \in {"loop", "call", "cooldown", "backoff", "append", "save"}
Describing == pc \in {"call", "cooldown", "backoff", "append", "save"}
StoreIds == {store.rows[i]["object_id"] : i \in 1..Len(store.rows)}
ApiEvents == {"ping_ok", "ping_error", "call_ok", "call_error"}
TransientStatuses == {429, 500, 502, 503, 504}

\* C1 (as stated): in the end-to-end scenario the pipeline has exactly one object,
\* 1-1997-0457, with one image, and a record whose InventoryNo is 1-1997-0457
C1_AsStated ==
  (variant = "auto" /\ fs = ScenarioTree /\ Describing) =>
     /\ DOMAIN groups = {ScenarioId}
     /\ Len(groups[ScenarioId]) = 1
     /\ meta["InventoryNo"] = ScenarioId

\* C1 (amended): in the end-to-end scenario the pipeline has exactly one object,
\* 1-1997-0457, with one image (the copy of the first root), and a record whose
\* InventoryNo is the catalogue's own spelling of the cell, "1/1997/0457 0"
C1_EndToEnd ==
  (variant = "auto" /\ fs = ScenarioTree /\ Describing) =>
     /\ DOMAIN groups = {ScenarioId}
     /\ all_objs = <<ScenarioId>>
     /\ Len(groups[ScenarioId]) = 1
     /\ groups[ScenarioId][1].root = 1
     /\ meta["InventoryNo"] = ScenarioCell

C1_Witness == variant = "auto" /\ fs = ScenarioTree /\ pc = "call"

\* C2: the store never holds two rows of one object, and no request is prepared or
\* sent for an object whose row is persisted
C2_NoDuplicateRows ==
  /\ \A i, j \in 1..Len(store.rows) :
        store.rows[i]["object_id"] = store.rows[j]["object_id"] => i = j
  /\ pc \in {"call", "cooldown", "backoff"} => all_objs[idx] \notin StoreIds

\* a restarted process has skipped persisted objects and describes a new one
C2_Witness == interruptedAt >= 1 /\ pc = "call" /\ idx > interruptedAt

\* the description an uninterrupted call_openai_with_retry ends with under a plan
RECURSIVE ScriptedOutcome(_, _, _)
ScriptedOutcome(v, plan, a) ==
  LET r == PlanResponse(plan, a)
  IN IF r.kind = "ok" THEN AnswerOf(r)
     ELSE IF IsRateLimitMsg(r.msg) \/ IsServerErrorMsg(r.msg)
     THEN IF a < MAX_RETRIES THEN ScriptedOutcome(v, plan, a + 1)
          ELSE ErrorPlaceholder(v, IF v = "auto" THEN MaxRetriesMsg ELSE MaxRetriesMsgHier)
     ELSE ErrorPlaceholder(v, r.msg)

\* the identifiers in the order one uninterrupted run goes through them
ExpectedIds == [d \in FileSystems |-> SortedStrs(DOMAIN GroupsOf["auto"][d])]

\* row i of the store that one uninterrupted run writes
UninterruptedRow(i) ==
  LET id == ExpectedIds[fs][i]
      d == ScriptedOutcome(variant, answers[id], 1)
      maps == MetadataOf[xls]
      row == IF variant = "auto"
             THEN [object_id |-> id, description |-> d,
                   metadata |-> metadata_csv_line(build_metadata_for_object(id, maps))]
             ELSE [object_id |-> id, description |-> d]
  IN to_excel(variant, <<row>>).rows[1]

C5_BatchLimit ==
  variant = "auto" =>
    /\ describedThisRun <= BATCH_LIMIT
    /\ processed_this_run <= describedThisRun
    /\ InLoop => Len(rows) = Len(LoadRows(store)) + (IF pc = "save" THEN 1 ELSE 0)
    /\ (InLoop \/ pc = "done") /\ idx >= 1 => Cardinality(done) = Len(rows)
    /\ (pc = "done" /\ idx >= 1 /\ idx <= Len(all_objs)) =>
          /\ processed_this_run = BATCH_LIMIT
          /\ all_objs[idx] \notin done
          /\ \A j \in 1..(idx - 1) : all_objs[j] \in done

\* a restarted run skipped a persisted object, described BATCH_LIMIT new ones and
\* stopped at the next new object
C5_Witness ==
  /\ variant = "auto"
  /\ pc = "done"
  /\ idx >= 1 /\ idx <= Len(all_objs)
  /\ describedThisRun = BATCH_LIMIT
  /\ Len(rows) > BATCH_LIMIT

\* C6: when the last attempt also fails with a rate-limit or server error, the
\* row of the object carries the error placeholder, it is persisted, and the loop
\* goes on: main ends only at the end of the list or at the batch limit
C6_ExhaustedRetries ==
  /\ (pc \in {"append", "save"} /\ resp.kind = "error" /\ resp.status \in TransientStatuses) =>
        /\ apiCalls = MAX_RETRIES
        /\ description =
             ErrorPlaceholder(variant, IF variant = "auto" THEN MaxRetriesMsg ELSE MaxRetriesMsgHier)
  /\ (pc = "save") => rows[Len(rows)]["description"] = description
  /\ InLoop => \A j \in 1..(idx - 1) : all_objs[j] \in StoreIds
  /\ (pc = "done" /\ idx >= 1) =>
        \/ idx > Len(all_objs)
        \/ variant = "auto" /\ processed_this_run >= BATCH_LIMIT

\* the placeholder of an exhausted object is persisted and the next object is in work
C6_Witness ==
  /\ pc = "call"
  /\ idx >= 2
  /\ resp.kind = "error" /\ resp.status \in TransientStatuses
  /\ store.rows[Len(store.rows)]["description"] =
       ErrorPlaceholder(variant, IF variant = "auto" THEN MaxRetriesMsg ELSE MaxRetriesMsgHier)

\* C7: an error that is neither a rate-limit nor a server error is not retried: one
\* request, no pause, the placeholder of this error is the object's description
C7_NonTransientNotRetried ==
  (pc \in {"backoff", "append", "save"} /\ resp.kind = "error"
     /\ resp.status \notin TransientStatuses) =>
        /\ pc # "backoff"
        /\ apiCalls = attempt
        /\ description = ErrorPlaceholder(variant, resp.msg)

\* C8: call_openai_with_retry sends at most MAX_RETRIES requests for one object,
\* whatever the collaborator answers, and every started run of main ends
C8_Terminates == [](apiCalls <= MAX_RETRIES) /\ []((pc # "idle") => <>(pc = "done"))

\* the last attempt of an object has been made
C8_Witness == pc = "backoff" /\ apiCalls = MAX_RETRIES

\* C9 (as stated): no request follows a successful request without a cool-down
\* in between
C9_AsStated ==
  ~(Len(apiLog) = 2 /\ apiLog[1] \in {"ping_ok", "call_ok"} /\ apiLog[2] \in ApiEvents)

\* C9 (amended): no request follows a successful request of call_openai_with_retry
\* in the same process without a cool-down in between; the successful auth test at
\* the start of the process is followed by no pause
C9_CooldownAfterSuccess ==
  /\ ~(Len(apiLog) = 2 /\ apiLog[1] = "call_ok" /\ apiLog[2] \in ApiEvents)
  /\ (pc = "append" /\ resp.kind = "ok") => apiLog[Len(apiLog)] = "cooldown"

\* a request was sent right after the cool-down of the previous object's success
C9_Witness == Len(apiLog) = 2 /\ apiLog[1] = "cooldown" /\ apiLog[2] \in {"call_ok", "call_error"}

\* the base wait before attempt a + 1: 2.0 * 1.8^(a - 1), at most 30.0
BaseWait == <<20000, 36000, 64800, 116640, 209952, 300000>>

\* C10 (as stated): the base wait never exceeds the cap and no pause before a
\* retry exceeds the cap plus the jitter
C10_AsStated ==
  /\ wait <= WaitCap
  /\ pc = "backoff" => sleep_for <= WaitCap + JitterMax

\* C10 (amended): the base wait is 2.0 * 1.8^k capped at 30.0; the pause after a
\* server error, and after a rate limit without a positive hint, is the base wait
\* plus at most 0.5 s; after a rate limit with a hint of X > 0 seconds it is
\* X + 0.5 s plus at most 0.5 s, whatever the cap
C10_Backoff ==
  /\ wait <= WaitCap
  /\ pc \in {"call", "backoff"} => wait = BaseWait[attempt]
  /\ pc = "backoff" =>
        LET hinted == WaitHint(resp.msg)
        IN IF resp.status = 429 /\ hinted > 0
           THEN sleep_for \in (hinted + HintExtra)..(hinted + HintExtra + JitterMax)
           ELSE /\ sleep_for \in wait..(wait + JitterMax)
                /\ sleep_for <= WaitCap + JitterMax

\* the sixth pause of an object: the base wait has reached the cap
C10_Witness == pc = "backoff" /\ wait = WaitCap /\ sleep_for = WaitCap + JitterMax

C12_AsStated ==
  \A text \in LeadTexts, t \in Triples, sep \in Separators,
     v \in VariantTexts \ {<<>>}, rest \in Trailers :
     LET sp == Spelling(t, sep, <<>>, v)
     IN (cell = text \o sp \o rest /\ (text # <<>> \/ rest # <<>>)) =>
          /\ ("normalize_obj_id_from_excel" \in applied
                /\ normalize_obj_id_from_excel(sp) # None) =>
                normalized = Canonical(t)
          /\ ("parse_object_number" \in applied /\ parse_object_number(sp) # None) =>
                parsed = <<Canonical(t) \o <<"-">>, t[2]>>

\* C12 (amended): parse_object_number of copy_RelevantImages.py searches anywhere and
\* returns the first object number; normalize_obj_id_from_excel matches at the start
\* of the stripped cell only: it returns the first object number when nothing but
\* whitespace is in front, and None when other text is
C12_FirstOccurrence ==
  \A text \in LeadTexts, t \in Triples, sep \in Separators,
     v \in VariantTexts \ {<<>>}, rest \in Trailers :
     LET sp == Spelling(t, sep, <<>>, v)
     IN (cell = text \o sp \o rest /\ (text # <<>> \/ rest # <<>>)) =>
          /\ "normalize_obj_id_from_excel" \in applied =>
                normalized = IF text = <<>> THEN Canonical(t) ELSE None
          /\ ("parse_object_number" \in applied /\ parse_object_number(sp) # None) =>
                parsed = <<Canonical(t) \o <<"-">>, t[2]>>

\* text in front and a second object number behind: one parser finds the first
\* object number, the other finds none
C12_Witness ==
  /\ applied = {"normalize_obj_id_from_excel", "parse_object_number",
                "parse_object_number_excel"}
  /\ cell # None /\ cell[1] = "N" /\ Len(cell) > 24
  /\ normalized = None
  /\ parsed # None

\* the image files of an object under the roots, in root order then enumeration order
CandidatesOf(obj_id, roots) ==
  LET Mine(p) == /\ Lower(PathSuffix(p.name)) \in ALLOWED_EXTS
                 /\ StartsWith(Lower(p.name), Lower(obj_id \o <<"-">>))
  IN SelectSeq(RglobAll(roots), Mine)

NameSize(p) == <<Lower(p.name), p.size>>
NameOnly(p) == Lower(p.name)

\* list holds exactly one entry per key of the candidates, and that entry is a
\* candidate found under the earliest root that holds the key
OnePerKey(list, cands, Key(_)) ==
  /\ \A i \in 1..Len(list) :
       /\ \E c \in 1..Len(cands) : cands[c] = list[i]
       /\ \A j \in 1..Len(list) : Key(list[i]) = Key(list[j]) => i = j
       /\ \A c \in 1..Len(cands) : Key(cands[c]) = Key(list[i]) => list[i].root <= cands[c].root
  /\ \A c \in 1..Len(cands) : \E i \in 1..Len(list) : Key(list[i]) = Key(cands[c])

\* C13 as stated: in the site builder's list and in every list of the description
\* script's index there is exactly one entry per (lowercased filename, file size)
\* pair, the copy under the earliest root; same name and different sizes are both kept
C13_AsStated ==
  /\ "site" \in applied => OnePerKey(site_images, CandidatesOf(ScenarioId, fs), NameSize)
  /\ "auto" \in applied =>
       \A k \in DOMAIN index_auto : OnePerKey(index_auto[k], CandidatesOf(k, fs), NameSize)

\* C13 amended: the site builder keeps one entry per (lowercased filename, size)
\* pair, the copy under the earliest root, so equal names of different sizes are
\* both kept; the description script keeps one entry per lowercased filename, the
\* copy under the earliest root, whatever the sizes
C13_PerScript ==
  /\ "site" \in applied => OnePerKey(site_images, CandidatesOf(ScenarioId, fs), NameSize)
  /\ "auto" \in applied =>
       \A k \in DOMAIN index_auto : OnePerKey(index_auto[k], CandidatesOf(k, fs), NameOnly)

\* both indexers have run on roots that hold the same name twice, once with the
\* same size and once with another size
C13_Witness ==
  /\ {"site", "auto"} \subseteq applied
  /\ fs[2].exists
  /\ Len(fs[2].entries) = 1
  /\ Len(fs[1].entries) = 2
  /\ Lower(fs[1].entries[1].name) = Lower(fs[2].entries[1].name)
  /\ fs[1].entries[1].size = fs[2].entries[1].size
  /\ Len(site_images) = 2

\* the two sequence groups of a file name as integers, None when there are none
SeqPair(p, Match(_)) ==
  LET m == Match(PathStem(p.name))
  IN IF m = None THEN None ELSE <<ToInt(m[1]), ToInt(m[2])>>

PairLeq(a, b) == a[1] < b[1] \/ (a[1] = b[1] /\ a[2] <= b[2])

\* list is ascending by the sequence groups as integers, the names without groups
\* come last and are in lexicographic order of their lowercased names
SequenceOrdered(list, Match(_)) ==
  \A i \in 1..Len(list) : \A j \in (i + 1)..Len(list) :
     LET a == SeqPair(list[i], Match)
         b == SeqPair(list[j], Match)
     IN /\ (a # None /\ b # None) => PairLeq(a, b)
        /\ ~(a = None /\ b # None)
        /\ (a = None /\ b = None) => ~StrLess(Lower(list[j].name), Lower(list[i].name))

\* list is ascending by lowercased file name
NameOrdered(list) ==
  \A i \in 1..Len(list) : \A j \in (i + 1)..Len(list) :
     ~StrLess(Lower(list[j].name), Lower(list[i].name))

\* C14 as stated: the lists of all three indexers are ascending by the two sequence
\* groups as integers, with the names that carry no sequence groups after all others
\* and in lexicographic order among themselves
C14_AsStated ==
  /\ "auto" \in applied =>
       \A k \in DOMAIN index_auto : SequenceOrdered(index_auto[k], SuffixMatch)
  /\ "site" \in applied => SequenceOrdered(site_images, SuffixReMatch)
  /\ "hier" \in applied =>
       \A k \in DOMAIN index_hier : SequenceOrdered(index_hier[k], SuffixMatch)

\* C14 amended: the lists of autoOpenAIDescription.py and of build_site.py are
\* ascending by the two sequence groups as integers, names without sequence groups
\* last and in lexicographic order; the lists of automatic_description_Hier.py are
\* ascending by lowercased file name, which keeps the names with sequence groups in
\* ascending order of the groups but puts no name without groups behind them
C14_PerScript ==
  /\ "auto" \in applied =>
       \A k \in DOMAIN index_auto : SequenceOrdered(index_auto[k], SuffixMatch)
  /\ "site" \in applied => SequenceOrdered(site_images, SuffixReMatch)
  /\ "hier" \in applied =>
       \A k \in DOMAIN index_hier :
          /\ NameOrdered(index_hier[k])
          /\ \A i \in 1..Len(index_hier[k]) : \A j \in (i + 1)..Len(index_hier[k]) :
               LET a == SeqPair(index_hier[k][i], SuffixMatch)
                   b == SeqPair(index_hier[k][j], SuffixMatch)
               IN (a # None /\ b # None) => PairLeq(a, b)

\* the three indexers have run on a root that lists a name without sequence groups
\* before a name with them, and the description script has put the latter first
C14_Witness ==
  /\ {"auto", "site", "hier"} \subseteq applied
  /\ Len(fs[1].entries) = 2
  /\ SuffixMatch(PathStem(fs[1].entries[1].name)) = None
  /\ SuffixMatch(PathStem(fs[1].entries[2].name)) # None
  /\ index_auto[ScenarioId][1].name = fs[1].entries[2].name
  /\ site_images[1].name = fs[1].entries[2].name

\* the orders in which a directory enumeration can hand out the same files
Reorderings(entries) ==
  { [i \in 1..Len(entries) |-> entries[q[i]]] :
      q \in { f \in [1..Len(entries) -> 1..Len(entries)] :
                \A i \in 1..Len(entries) : \A j \in 1..Len(entries) : f[i] = f[j] => i = j } }

\* the same roots in the same order with the same files, enumerated in any order
Enumerations(roots) ==
  { << [exists |-> roots[1].exists, entries |-> e1],
       [exists |-> roots[2].exists, entries |-> e2] >> :
      e1 \in Reorderings(roots[1].entries), e2 \in Reorderings(roots[2].entries) }

\* C15: a build of the index over the same files and the same root order returns the
\* same mapping with the same order in every list, whatever order the enumeration
\* hands the files of a root out in
C15_Deterministic ==
  \A e \in Enumerations(fs) :
     /\ "auto" \in applied => collect_images_by_object(e) = index_auto
     /\ "site" \in applied => collect_images_for_object(ScenarioId, e) = site_images

\* the sources that hold the identifier, in priority order
Holding == SelectSeq(srcs, LAMBDA mp : ident \in DOMAIN mp)

\* the values the sources hold for field k of the identifier, as they are
SourceValues(k) ==
  { Holding[i][ident][k] : i \in { j \in 1..Len(Holding) : k \in DOMAIN Holding[j][ident] } }

\* the same values as safe_str renders them
SourceTexts(k) == { safe_str(v) : v \in SourceValues(k) }

\* C16 as stated: the merged record has exactly the eight fields of FIELDS_ORDER, and
\* each holds a value of a source or the sentinel
C16_AsStated ==
  "merge" \in applied =>
     /\ DOMAIN record = FieldNames
     /\ \A k \in FieldNames : record[k] \in SourceValues(k) \cup {NoData}

\* C16 amended: the merged record has exactly the eight fields of FIELDS_ORDER; each
\* holds the stripped text of a value of a source or the sentinel, except that
\* InventoryNo holds the identifier when no source gives it a value
C16_AlwaysEightFields ==
  "merge" \in applied =>
     /\ DOMAIN record = FieldNames
     /\ \A k \in FieldNames \ {"InventoryNo"} : record[k] \in SourceTexts(k) \cup {NoData}
     /\ record["InventoryNo"] \in (SourceTexts("InventoryNo") \ {NoData}) \cup {ident}

\* a record was merged from a source that lacks the identifier and a source whose
\* entry lacks keys
C16_Witness ==
  /\ "merge" \in applied
  /\ Len(srcs) = 2
  /\ ident \notin DOMAIN srcs[1]
  /\ ident \in DOMAIN srcs[2]
  /\ DOMAIN srcs[2][ident] = {"Contributors"}
  /\ record["Materials"] = NoData

\* the text of the first source in priority order that holds a value other than the
\* sentinel for field k of the identifier, None when there is no such source
FirstValue(k) ==
  LET has == { i \in 1..Len(Holding) :
                 k \in DOMAIN Holding[i][ident] /\ safe_str(Holding[i][ident][k]) # NoData }
  IN IF has = {} THEN None
     ELSE safe_str(Holding[CHOOSE i \in has : \A j \in has : i <= j][ident][k])

\* C17: for every field the merged value is the value of the first source in the
\* priority list that holds a non-sentinel value for it; a later source fills only
\* the fields no earlier source has filled
C17_FirstSourceWins ==
  "merge" \in applied =>
     \A k \in FieldNames : FirstValue(k) # None => record[k] = FirstValue(k)

\* two sources hold different contributors, and only the second holds an inventory
\* number: the record has the first one's contributors and the second one's number
C17_Witness ==
  /\ "merge" \in applied
  /\ Len(srcs) = 2
  /\ ident \in DOMAIN srcs[1] /\ ident \in DOMAIN srcs[2]
  /\ DOMAIN srcs[1][ident] = {"InventoryNo", "Contributors"}
  /\ DOMAIN srcs[2][ident] = FieldNames
  /\ srcs[1][ident]["InventoryNo"] = NoData
  /\ srcs[1][ident]["Contributors"] = <<"A">>
  /\ srcs[2][ident]["Contributors"] = <<" ", "E">>
  /\ record["Contributors"] = <<"A">>
  /\ record["InventoryNo"] = <<"A">>
  /\ record["Materials"] = <<"T">>

\* C18: merging with every source listed twice yields the record merged from the
\* sources listed once, and merging the merged record with itself yields that record
C18_Idempotent ==
  /\ {"merge", "double"} \subseteq applied => doubled = record
  /\ "again" \in applied => remerged = record

\* one source R was merged as [R] and as [R, R], and the result with itself
C18_Witness ==
  /\ {"merge", "double", "again"} \subseteq applied
  /\ Len(srcs) = 1
  /\ ident \in DOMAIN srcs[1]
  /\ record["Contributors"] = <<"E">>
  /\ doubled["Contributors"] = <<"E">>
  /\ remerged["Contributors"] = <<"E">>

\* C19: the InventoryNo of a merged record is never the sentinel, and it is the
\* identifier when no source holds a non-sentinel inventory number for the identifier
C19_InventoryNoNeverSentinel ==
  "merge" \in applied =>
     /\ record["InventoryNo"] # NoData
     /\ FirstValue("InventoryNo") = None => record["InventoryNo"] = ident

\* one source lacks the identifier and the other holds the sentinel as its number
C19_Witness ==
  /\ "merge" \in applied
  /\ Len(srcs) = 2
  /\ ident \notin DOMAIN srcs[1]
  /\ ident \in DOMAIN srcs[2]
  /\ "InventoryNo" \in DOMAIN srcs[2][ident]
  /\ srcs[2][ident]["InventoryNo"] = NoData
  /\ record["InventoryNo"] = ident

\* C20: once a copy script has stopped, every matched file of every object of the
\* list has been handed to the copy, a file that could not be copied has its failure
\* recorded, and the logs or the report have been written
C20_FailureDoesNotAbort ==
  cpc \in {"done", "crashed"} =>
     /\ attempted = FilesOf(worklist)
     /\ \A x \in unreadable :
          \E i \in 1..Len(recorded) :
             /\ <<recorded[i][1], recorded[i][2]>> = x
             /\ recorded[i][3] \in {"copy_error", "error"}
     /\ written

\* the description is the placeholder main writes for a failed describe_object
IsPlaceholder(d) == Len(d) >= 1 /\ d[1] = "[Error during description: "

\* C29: an object whose persisted row holds the error placeholder is in the done set
\* of every process that is in its loop, and no process has it in work: the
\* collaborator is never called for it again
C29_FailedIsCompleted ==
  variant = "auto" =>
     \A i \in 1..Len(store.rows) :
        IsPlaceholder(store.rows[i]["description"]) =>
           /\ InLoop => store.rows[i]["object_id"] \in done
           /\ Describing => all_objs[idx] # store.rows[i]["object_id"]

\* a later run calls the collaborator for the second object while the store holds
\* the placeholder row of the first
C29_Witness ==
  /\ variant = "auto"
  /\ runs = 2
  /\ pc = "call"
  /\ idx = 2
  /\ Len(store.rows) = 1
  /\ IsPlaceholder(store.rows[1]["description"])
  /\ store.rows[1]["object_id"] = all_objs[1]

\* C30: at the head of the object loop the done set is the set of the object_id
\* values of the rows, the rows are the content of the result store as last written,
\* and processed_this_run is the number of rows this run has appended
C30_LoopInvariant ==
  (variant = "auto" /\ pc = "loop") =>
     /\ done = { rows[i]["object_id"] : i \in 1..Len(rows) }
     /\ IF store.exists THEN to_excel(variant, rows) = store ELSE rows = <<>>
     /\ processed_this_run = describedThisRun
     /\ Len(rows) >= processed_this_run

\* a resumed run is at the loop head with a loaded row and a row of its own
C30_Witness ==
  /\ variant = "auto"
  /\ pc = "loop"
  /\ runs = 2
  /\ processed_this_run = 1
  /\ Len(rows) = 2
  /\ idx = 3

\* the list the description pipeline holds for the object the site list is built for
AutoList == IF ScenarioId \in DOMAIN index_auto THEN index_auto[ScenarioId] ELSE <<>>

\* C26 as stated: for the same roots and files the list of the description pipeline
\* equals the list of the site builder
C26_AsStated == {"auto", "site"} \subseteq applied => AutoList = site_images

\* every image of the object is named <identifier>-NNN-NNN.<ext>, and two of them
\* share a stem (case-insensitively) only when they share name and size
Conventional ==
  LET cands == CandidatesOf(ScenarioId, fs)
  IN /\ \A i \in 1..Len(cands) : SuffixReMatch(PathStem(cands[i].name)) # None
     /\ \A i \in 1..Len(cands) : \A j \in 1..Len(cands) :
          Lower(PathStem(cands[i].name)) = Lower(PathStem(cands[j].name))
            => NameSize(cands[i]) = NameSize(cands[j])

\* C26 amended: the two lists are equal when the images of the object are named by
\* the convention and no two of them differ only in extension or only in size
C26_SameViewWhenConventional ==
  ({"auto", "site"} \subseteq applied /\ Conventional) => AutoList = site_images

\* both indexers have run on a root that lists sequence 012 before sequence 003 and
\* a second root that repeats a file: both lists hold the two files in order
C26_Witness ==
  /\ {"auto", "site"} \subseteq applied
  /\ Conventional
  /\ Len(fs[1].entries) = 2
  /\ fs[1].entries[1].name = IndexStem(1, 2) \o Jpg
  /\ fs[2].exists /\ Len(fs[2].entries) = 1
  /\ Len(site_images) = 2
  /\ site_images[1].name = IndexStem(0, 3) \o Jpg
  /\ AutoList = site_images

\* names of files the copy stage finds under a base prefix
CopiedNames(base_prefix) ==
  { base_prefix \o <<"0", "0", "0", "-", "0", "0", "1">> \o Jpg,
    base_prefix \o <<"0", "0", "1", "-", "0", "0", "0">> \o JpgUpper }

\* C27 as stated: whenever parse_object_number derives a base prefix from a cell,
\* normalize_obj_id_from_excel maps the cell to that prefix without its last dash
\* and extract_object_id gives every file copied under the prefix that identifier
C27_AsStated ==
  ("parse_object_number" \in applied /\ parsed # None) =>
     /\ "normalize_obj_id_from_excel" \in applied => normalized \o <<"-">> = parsed[1]
     /\ \A name \in CopiedNames(parsed[1]) :
          extract_object_id(name) \o <<"-">> = parsed[1]

\* the position of an image in the object's list
ShotAt(p) == CHOOSE k \in 1..Len(shots) : shots[k] = p

\* C25: the images sent for an object are at most MAX_IMAGES_PER_OBJECT, all
\* readable and from the first MAX_IMAGES_PER_OBJECT positions of its list, in
\* list order; every readable image of these positions is sent, so an
\* unreadable one is not replaced by a later one and the request is still built
C25_BoundedPrefix ==
  "describe_object" \in applied =>
     /\ Len(payload) <= MAX_IMAGES_PER_OBJECT
     /\ \A j \in 1..Len(payload) :
          /\ \E k \in 1..Len(shots) : shots[k] = payload[j]
          /\ ShotAt(payload[j]) <= MAX_IMAGES_PER_OBJECT
          /\ payload[j] \notin blocked
     /\ \A i, j \in 1..Len(payload) : i < j => ShotAt(payload[i]) < ShotAt(payload[j])
     /\ \A k \in 1..Len(shots) :
          (k <= MAX_IMAGES_PER_OBJECT /\ shots[k] \notin blocked)
             => \E j \in 1..Len(payload) : payload[j] = shots[k]

C25_Witness ==
  /\ "describe_object" \in applied
  /\ Len(shots) = MAX_IMAGES_PER_OBJECT + 2
  /\ blocked = {shots[2]}
  /\ Len(payload) = MAX_IMAGES_PER_OBJECT - 1
  /\ payload[2] = shots[3]

\* C23 as stated: after a run of build_site the index cards and the set of
\* object pages are those a run on an empty site directory gives for the same
\* store and roots, whatever the directory held before
C23_AsStated ==
  [][SiteMain => site_dir' = build_site(store, fs, EmptySite)]_vars

\* the identifiers with a metadata row and those with images
WithMetadata == DOMAIN MetadataOf[xls][1] \cup DOMAIN MetadataOf[xls][2]
WithImages == DOMAIN GroupsOf["auto"][fs]
ImageNames(o) == [i \in 1..Len(SiteImagesOf[fs][o]) |-> SiteImagesOf[fs][o][i].name]

\* the last run of the pipeline got through its list
RunCompleted ==
  /\ pc = "done"
  /\ runs >= 1
  /\ apiLog # <<>>
  /\ apiLog[Len(apiLog)] # "ping_error"
  /\ WithImages \subseteq StoreIds

\* C24 as stated: once the pipeline has gone through its list, a run of
\* build_site gives every object that has images or a metadata row a page, with
\* an empty image list when it has no images
C24_AsStated ==
  [][(SiteMain /\ RunCompleted) =>
       \A o \in WithImages \cup WithMetadata :
          /\ o \in DOMAIN site_dir'.pages
          /\ site_dir'.pages[o].images = ImageNames(o)]_vars

\* C28: in a run of process_list no two copies have the same destination name
\* (compared in lower case) or the same source, and an iteration leaves every
\* file that was in the output directory as it was and adds one new file per
\* copy it records
C28_NoOverwriteNoDuplicate ==
  /\ [](\A i, j \in 1..Len(copied_rows) :
          i # j => /\ Lower(copied_rows[i].target_path) # Lower(copied_rows[j].target_path)
                   /\ copied_rows[i].source_path # copied_rows[j].source_path)
  /\ [][ProcessCell =>
          LET before == fs[OutOf(list_no)].entries
              after == fs'[OutOf(list_no)].entries
          IN /\ Len(after) = Len(before) + Len(copied_rows') - Len(copied_rows)
             /\ SubSeq(after, 1, Len(before)) = before]_vars

C28_Witness ==
  /\ rpc = "loop"
  /\ list_no = 1
  /\ xls[1] = ListOf(<<ScenarioCell, SameObjectCell>>)
  /\ cell_at = 3
  /\ Len(copied_rows) = 2
  /\ copied_rows[1].source_path = <<Y1997, Shot(ScenarioId, 1, Jpg)>>
  /\ copied_rows[1].target_path = Shot(ScenarioId, 1, <<"_", "1">> \o Jpg)
  /\ Len(fs[2].entries) = 4

\* the rows of a list, the files of the roots and the cells of a list from
\* which an identifier can be derived
RowsWithId(table) ==
  [table EXCEPT !.rows = SelectSeq(table.rows,
                                   LAMBDA r : normalize_obj_id_from_excel(r.t1) # None)]
FilesWithId(dirs) ==
  [r \in 1..Len(dirs) |->
     [dirs[r] EXCEPT !.entries = SelectSeq(dirs[r].entries,
                                           LAMBDA f : extract_object_id(f.name) # None)]]
NoNumberCells(table) ==
  {ReadCell(table.rows[i].t1) : i \in 1..Len(table.rows)}
    \cap {c \in {ReadCell(x) : x \in StageCells} : parse_object_number(c) = None}

\* C21 as stated: every cell of a list from which no object number can be
\* derived has a row in the misses log of the list
C21_AsStated ==
  rpc = "done" =>
     \A k \in 1..2 :
        \A c \in NoNumberCells(xls[k]) :
           \E m \in 1..Len(logs[k].misses) : logs[k].misses[m].raw_T1 = c

\* C21: a cell or file name without identifier is skipped: the metadata are
\* those of the rows with identifier, the index is that of the files with
\* identifier, and an iteration of process_list on such a cell copies nothing,
\* leaves the output folder and the seen-sets as they were, appends one miss
\* and goes on with the next cell; an empty cell never reaches the loop
C21_SkippedAndLogged ==
  /\ []("read_metadata_excel" \in applied =>
          \A k \in 1..2 : md_maps[k] = read_metadata_excel(RowsWithId(xls[k])))
  /\ []("collect_images_by_object" \in applied =>
          index_auto = collect_images_by_object(FilesWithId(fs)))
  /\ [](rpc = "done" =>
          \A k \in 1..2 :
             \A c \in NoNumberCells(xls[k]) \ {NaN} :
                \E m \in 1..Len(logs[k].misses) : logs[k].misses[m].raw_T1 = c)
  /\ [][(ProcessCell /\ parse_object_number(Series(xls[list_no])[cell_at].raw_T1) = None) =>
          /\ fs' = fs
          /\ seen_outputs' = seen_outputs
          /\ seen_src_paths' = seen_src_paths
          /\ seen_prefixes' = seen_prefixes
          /\ copied_rows' = copied_rows
          /\ misses_rows' = Append(misses_rows,
                                   Miss(Series(xls[list_no])[cell_at], "no object number"))
          /\ rpc' = "loop"
          /\ cell_at' = cell_at + 1]_vars

C21_Witness ==
  /\ rpc = "done"
  /\ applied = {"read_metadata_excel", "collect_images_by_object"}
  /\ xls[1] = ListOf(<<BadCell, ScenarioCell>>)
  /\ Len(logs[1].misses) = 1
  /\ logs[1].misses[1].raw_T1 = BadCell
  /\ Len(logs[1].copied) = 2
  /\ DOMAIN md_maps[1] = {ScenarioId}
  /\ \E j \in 1..Len(fs[2].entries) : fs[2].entries[j] = JunkFile
  /\ DOMAIN index_auto = {ScenarioId}

\* C22 as stated: a list that is missing is skipped and the other list is
\* processed; a missing list contributes no metadata
C22_AsStated ==
  /\ rpc \in {"done", "crashed"} =>
        \A k \in 1..2 : xls[k].exists => \E l \in 1..Len(logs) : logs[l].list = k
  /\ "read_metadata_excel" \in applied =>
        \A k \in 1..2 : ~xls[k].exists => md_maps[k] = <<>>
====
